---- MODULE Spec2Model ----
(***************************************************************************)
(* Checkpoint execution state machine, run lineage and rollback engine of *)
(* the pipeline orchestrator (src/src/services).  The committed database   *)
(* and the pipeline's directory tree are the state; every action is one    *)
(* HTTP request: the service call, run inside the get_db session wrapper,  *)
(* which commits when the handler returns and rolls the transaction back   *)
(* when it raises.  File operations are not undone by a rollback.          *)
(***************************************************************************)
EXTENDS Integers, Sequences, FiniteSets, TLC

\* ------------------------------------------------------------------ bounds
MaxCheckpoints == 2      \* checkpoints of the pipeline: 0..MaxCheckpoints
MaxRuns == 2             \* runs ever created
MaxRunIds == 3           \* runs ever created where the run lineage is examined
MaxRevisionLimit == 1    \* max_revision_iterations drawn from 0..MaxRevisionLimit
MaxExecutions == 3       \* executions ever created, over all runs
MaxRollbacks == 1        \* rollback ids drawn before a rollback with a failing copy

\* Python None / SQL NULL in an integer-valued column
None == -1

VARIABLES
    BASE_PIPELINES_PATH,  \* config: os.getenv("BASE_PIPELINES_PATH", "./pipelines")
    pipeline,         \* the Pipeline row: checkpoint_order, auto_advance
    checkpoint_defs,  \* CheckpointDefinition rows, by checkpoint_id
    db,               \* committed tables: runs, execs, artifacts, interactions,
                      \*                   rollback_events, archived_items
    fs,               \* directory tree: temp_dirs, run_dirs, files, archive_dirs, latest
    nx,               \* fresh identifiers (uuid4): the next run and rollback id and,
                      \* per run, the number of executions created for it so far
    in_flight         \* the request whose handler has read its rows in its own
                      \* session and has not written yet, with the objects it loaded

vars == <<BASE_PIPELINES_PATH, pipeline, checkpoint_defs, db, fs, nx, in_flight>>

\* pathlib: base_path / p is p itself when p is absolute
BASE_PIPELINES_PATH_IS_ABSOLUTE == BASE_PIPELINES_PATH = "/srv/pipelines"

\* ------------------------------------------------------------- small helpers
Max(S) == CHOOSE x \in S : \A y \in S : y <= x

Restrict(f, S) == [x \in S |-> f[x]]

\* the state a handler works on: its session's view of the tables, the files, the ids
State == [db |-> db, fs |-> fs, nx |-> nx]

Return(st) == [st |-> st, res |-> "ok"]

Raise(st, err) == [st |-> st, res |-> err]

\* A uuid4 is fresh: the k-th execution created for run r gets the id below, so
\* that the ids do not depend on the order in which the runs advance.
FreshExecutionId(st, run_id) == (run_id - 1) * MaxExecutions + st.nx.execution[run_id] + 1

\* ---------------------------------------------------------------- file paths
Path(root, owner, v, pos, cp, stem) ==
    [root |-> root, owner |-> owner, v |-> v, pos |-> pos, cp |-> cp, stem |-> stem]

\* .temp/exec_{execution_id}/artifacts_staging/{name}_{artifact_id}.{format}
get_artifact_staging_path(execution_id, artifact_name, artifact_id) ==
    Path("temp", execution_id, 0, 0, 0, artifact_name \o <<artifact_id>>)

\* runs/v{n}/checkpoint_{pos}_{name}/outputs/{name}_{artifact_id}_v{n}.{format}
get_permanent_artifact_path(run_version, checkpoint_name, position, artifact_name, artifact_id) ==
    Path("runs", 0, run_version, position, checkpoint_name,
         artifact_name \o <<artifact_id, run_version>>)

\* stem.rsplit('_', 1): the name part and the id part of a file name
SplitStem(stem, artifact_id) ==
    IF Len(stem) >= 2
    THEN [name |-> SubSeq(stem, 1, Len(stem) - 1), id |-> stem[Len(stem)]]
    ELSE [name |-> stem, id |-> artifact_id]

\* shutil.rmtree of .temp/exec_{execution_id}: the directory and all it holds
delete_temp_execution_directory(f, execution_id) ==
    [f EXCEPT !.temp_dirs = @ \ {execution_id},
              !.files = {p \in @ : ~(p.root = "temp" /\ p.owner = execution_id)}]

\* ------------------------------------------------------------ session wrapper
\* get_db: commit when the handler returns, roll back when it raises; what the
\* handler did to the file system, and the uuids it drew, stay as they are.
get_db(st0, r) ==
    IF r.res = "ok" THEN r.st ELSE [r.st EXCEPT !.db = st0.db]

\* ------------------------------------------------------------- RunService
RunsOfPipeline(d) == DOMAIN d.runs

\* the same query ordered by run_version ascending: the oldest run
get_oldest_run(d) ==
    IF RunsOfPipeline(d) = {} THEN None
    ELSE CHOOSE r \in RunsOfPipeline(d) :
            \A q \in RunsOfPipeline(d) : d.runs[r].run_version <= d.runs[q].run_version

get_latest_valid_run(d) ==
    IF RunsOfPipeline(d) = {} THEN None
    ELSE CHOOSE r \in RunsOfPipeline(d) :
            \A q \in RunsOfPipeline(d) : d.runs[q].run_version <= d.runs[r].run_version

\* the version of the latest run given again, not the one after it
get_latest_run_version(d) ==
    IF RunsOfPipeline(d) = {} THEN 1
    ELSE Max({d.runs[r].run_version : r \in RunsOfPipeline(d)})

get_next_run_version(d) ==
    IF RunsOfPipeline(d) = {} THEN 1
    ELSE Max({d.runs[r].run_version : r \in RunsOfPipeline(d)}) + 1

\* pipeline_id is "pipeline" for the pipeline whose tables these are and
\* "other_pipeline" for another pipeline of the installation, one with
\* checkpoints; any other id names no pipeline.  Every run in st.db.runs belongs
\* to "pipeline".
create_run(st, pipeline_id, extends_from_run_id) ==
    IF pipeline_id \notin {"pipeline", "other_pipeline"} THEN Raise(st, "pipeline_not_found")
    ELSE IF pipeline_id = "pipeline" /\ Len(pipeline.checkpoint_order) = 0
    THEN Raise(st, "no_checkpoints")
    ELSE IF extends_from_run_id # None /\ extends_from_run_id \notin DOMAIN st.db.runs
    THEN Raise(st, "not_found")
    ELSE IF extends_from_run_id # None /\ pipeline_id # "pipeline"
    THEN Raise(st, "run_of_another_pipeline")
    ELSE
      LET previous_run == IF extends_from_run_id # None THEN extends_from_run_id
                          ELSE get_latest_valid_run(st.db)
          run_version == get_next_run_version(st.db)
          run_id == st.nx.run
          run == [run_version |-> run_version,
                  status |-> "not_started",
                  current_checkpoint_id |-> None,
                  current_checkpoint_position |-> None,
                  previous_run_id |-> previous_run,
                  extends_from_run_version |->
                      IF previous_run = None THEN None
                      ELSE st.db.runs[previous_run].run_version,
                  started_at |-> FALSE,
                  completed_at |-> FALSE]
      IN Return([st EXCEPT !.db.runs = (run_id :> run) @@ @,
                           !.fs.run_dirs = @ \cup {run_version},
                           !.nx.run = @ + 1])

\* the execution left pending when no approval to start is required
create_checkpoint_execution_left_pending(st, run_id, checkpoint_id, position) ==
    LET execution_id == FreshExecutionId(st, run_id)
        human_interaction == checkpoint_defs[checkpoint_id]
        requires_approval == human_interaction.requires_approval_to_start
        pending == [run_id |-> run_id,
                    checkpoint_id |-> checkpoint_id,
                    checkpoint_position |-> position,
                    status |-> "pending",
                    revision_iteration |-> 0,
                    max_revision_iterations |-> human_interaction.max_revision_iterations,
                    started_at |-> FALSE,
                    completed_at |-> FALSE,
                    failed_at |-> FALSE]
        execution == IF requires_approval
                     THEN [pending EXCEPT !.status = "waiting_approval_to_start"]
                     ELSE pending
        log == IF requires_approval
               THEN <<[interaction_type |-> "approval_to_start", user_input |-> "none"]>>
               ELSE <<>>
    IN [st EXCEPT !.db.execs = (execution_id :> execution) @@ @,
                  !.db.interactions = (execution_id :> log) @@ @,
                  !.fs.temp_dirs = @ \cup {execution_id},
                  !.nx.execution[run_id] = @ + 1]

create_checkpoint_execution(st, run_id, checkpoint_id, position) ==
    LET execution_id == FreshExecutionId(st, run_id)
        human_interaction == checkpoint_defs[checkpoint_id]
        requires_approval == human_interaction.requires_approval_to_start
        pending == [run_id |-> run_id,
                    checkpoint_id |-> checkpoint_id,
                    checkpoint_position |-> position,
                    status |-> "pending",
                    revision_iteration |-> 0,
                    max_revision_iterations |-> human_interaction.max_revision_iterations,
                    started_at |-> FALSE,
                    completed_at |-> FALSE,
                    failed_at |-> FALSE]
        execution == IF requires_approval
                     THEN [pending EXCEPT !.status = "waiting_approval_to_start"]
                     ELSE [pending EXCEPT !.status = "in_progress", !.started_at = TRUE]
        log == IF requires_approval
               THEN <<[interaction_type |-> "approval_to_start", user_input |-> "none"]>>
               ELSE <<>>
    IN [st EXCEPT !.db.execs = (execution_id :> execution) @@ @,
                  !.db.interactions = (execution_id :> log) @@ @,
                  !.fs.temp_dirs = @ \cup {execution_id},
                  !.nx.execution[run_id] = @ + 1]

\* start_run treating the first execution as completion treats the next one:
\* without auto_advance it waits for approval to start
start_run_honouring_auto_advance(st, run_id) ==
    IF run_id \notin DOMAIN st.db.runs THEN Raise(st, "not_found")
    ELSE IF st.db.runs[run_id].status # "not_started" THEN Raise(st, "already_started")
    ELSE IF Len(pipeline.checkpoint_order) = 0 THEN Raise(st, "no_checkpoints")
    ELSE
      LET first_checkpoint_id == pipeline.checkpoint_order[1]
          execution_id == FreshExecutionId(st, run_id)
          st1 == create_checkpoint_execution(st, run_id, first_checkpoint_id, 0)
      IN Return([st1 EXCEPT !.db.runs[run_id].status = "in_progress",
                            !.db.runs[run_id].current_checkpoint_id = first_checkpoint_id,
                            !.db.runs[run_id].current_checkpoint_position = 0,
                            !.db.runs[run_id].started_at = TRUE,
                            !.db.execs[execution_id].status =
                                IF pipeline.auto_advance THEN @
                                ELSE "waiting_approval_to_start",
                            !.fs.latest = st.db.runs[run_id].run_version])

\* start_run without its status check
start_run_any_status(st, run_id) ==
    IF run_id \notin DOMAIN st.db.runs THEN Raise(st, "not_found")
    ELSE IF Len(pipeline.checkpoint_order) = 0 THEN Raise(st, "no_checkpoints")
    ELSE
      LET first_checkpoint_id == pipeline.checkpoint_order[1]
          st1 == create_checkpoint_execution(st, run_id, first_checkpoint_id, 0)
      IN Return([st1 EXCEPT !.db.runs[run_id].status = "in_progress",
                            !.db.runs[run_id].current_checkpoint_id = first_checkpoint_id,
                            !.db.runs[run_id].current_checkpoint_position = 0,
                            !.db.runs[run_id].started_at = TRUE,
                            !.fs.latest = st.db.runs[run_id].run_version])

start_run(st, run_id) ==
    IF run_id \notin DOMAIN st.db.runs THEN Raise(st, "not_found")
    ELSE IF st.db.runs[run_id].status # "not_started" THEN Raise(st, "already_started")
    ELSE IF Len(pipeline.checkpoint_order) = 0 THEN Raise(st, "no_checkpoints")
    ELSE
      LET first_checkpoint_id == pipeline.checkpoint_order[1]
          st1 == create_checkpoint_execution(st, run_id, first_checkpoint_id, 0)
      IN Return([st1 EXCEPT !.db.runs[run_id].status = "in_progress",
                            !.db.runs[run_id].current_checkpoint_id = first_checkpoint_id,
                            !.db.runs[run_id].current_checkpoint_position = 0,
                            !.db.runs[run_id].started_at = TRUE,
                            !.fs.latest = st.db.runs[run_id].run_version])

\* -------------------------------------------------------- ExecutionService
AppendInteraction(st, execution_id, interaction_type, user_input) ==
    [st EXCEPT !.db.interactions[execution_id] =
        Append(@, [interaction_type |-> interaction_type, user_input |-> user_input])]

ArtifactsOf(d, execution_id) ==
    {a \in DOMAIN d.artifacts : d.artifacts[a].execution_id = execution_id}

ExecutionsOfRun(d, run_id) == {e \in DOMAIN d.execs : d.execs[e].run_id = run_id}

\* the staged file moved, the record left without its promotion stamp
PromoteArtifactUnstamped(st, a) ==
    LET artifact == st.db.artifacts[a]
        execution == st.db.execs[artifact.execution_id]
        run == st.db.runs[execution.run_id]
        parts == SplitStem(artifact.file_path.stem, artifact.artifact_id)
        staging_path == get_artifact_staging_path(artifact.execution_id, parts.name, parts.id)
        permanent_path == get_permanent_artifact_path(
                              run.run_version, execution.checkpoint_id,
                              execution.checkpoint_position, parts.name, parts.id)
    IN IF staging_path \in st.fs.files
       THEN [st EXCEPT !.fs.files = (@ \ {staging_path}) \cup {permanent_path},
                       !.db.artifacts[a].file_path = permanent_path]
       ELSE st

\* shutil.copy in the place of shutil.move: the staged file stays
CopyArtifactToPermanent(st, a) ==
    LET artifact == st.db.artifacts[a]
        execution == st.db.execs[artifact.execution_id]
        run == st.db.runs[execution.run_id]
        parts == SplitStem(artifact.file_path.stem, artifact.artifact_id)
        staging_path == get_artifact_staging_path(artifact.execution_id, parts.name, parts.id)
        permanent_path == get_permanent_artifact_path(
                              run.run_version, execution.checkpoint_id,
                              execution.checkpoint_position, parts.name, parts.id)
    IN IF staging_path \in st.fs.files
       THEN [st EXCEPT !.fs.files = @ \cup {permanent_path},
                       !.db.artifacts[a].file_path = permanent_path,
                       !.db.artifacts[a].promoted_to_permanent_at = TRUE]
       ELSE st

\* the record updated although the move found no staged file
PromoteArtifactStampingMissing(st, a) ==
    LET artifact == st.db.artifacts[a]
        execution == st.db.execs[artifact.execution_id]
        run == st.db.runs[execution.run_id]
        parts == SplitStem(artifact.file_path.stem, artifact.artifact_id)
        staging_path == get_artifact_staging_path(artifact.execution_id, parts.name, parts.id)
        permanent_path == get_permanent_artifact_path(
                              run.run_version, execution.checkpoint_id,
                              execution.checkpoint_position, parts.name, parts.id)
        moved == IF staging_path \in st.fs.files
                 THEN [st EXCEPT !.fs.files = (@ \ {staging_path}) \cup {permanent_path}]
                 ELSE st
    IN [moved EXCEPT !.db.artifacts[a].file_path = permanent_path,
                     !.db.artifacts[a].promoted_to_permanent_at = TRUE]

\* one pass of the promotion loop: move the staged file to permanent storage and
\* update the record; a missing staged file (FileNotFoundError) is skipped
PromoteArtifact(st, a) ==
    LET artifact == st.db.artifacts[a]
        execution == st.db.execs[artifact.execution_id]
        run == st.db.runs[execution.run_id]
        parts == SplitStem(artifact.file_path.stem, artifact.artifact_id)
        staging_path == get_artifact_staging_path(artifact.execution_id, parts.name, parts.id)
        permanent_path == get_permanent_artifact_path(
                              run.run_version, execution.checkpoint_id,
                              execution.checkpoint_position, parts.name, parts.id)
    IN IF staging_path \in st.fs.files
       THEN [st EXCEPT !.fs.files = (@ \ {staging_path}) \cup {permanent_path},
                       !.db.artifacts[a].file_path = permanent_path,
                       !.db.artifacts[a].promoted_to_permanent_at = TRUE]
       ELSE st

RECURSIVE PromoteAll(_, _)
PromoteAll(st, ids) ==
    IF ids = {} THEN st
    ELSE LET a == CHOOSE x \in ids : \A y \in ids : x <= y
         IN PromoteAll(PromoteArtifact(st, a), ids \ {a})

\* the next execution keeps the status it was created with, whatever auto_advance
StatusAsCreated(created, auto_advance, requires_approval) == created

\* the status of the execution created for the next checkpoint
NextExecutionStatus(created, auto_advance, requires_approval) ==
    IF auto_advance
    THEN (IF ~requires_approval THEN "in_progress" ELSE created)
    ELSE "waiting_approval_to_start"

\* the same test, off by one
HasNextCheckpointOffByOne(current_position, checkpoint_order) ==
    current_position + 2 < Len(checkpoint_order)

\* "if current_position + 1 < len(checkpoint_order)": there is a next checkpoint
HasNextCheckpoint(current_position, checkpoint_order) ==
    current_position + 1 < Len(checkpoint_order)

_complete_checkpoint_and_advance(st0, execution_id, promote_artifacts) ==
    LET execution == st0.db.execs[execution_id]
        run_id == execution.run_id
        st1 == IF promote_artifacts
               THEN PromoteAll(st0, ArtifactsOf(st0.db, execution_id))
               ELSE st0
        st2 == AppendInteraction(
                   [st1 EXCEPT !.db.execs[execution_id].status = "completed",
                               !.db.execs[execution_id].completed_at = TRUE],
                   execution_id, "approval_to_complete", "approved")
        current_position == execution.checkpoint_position
        checkpoint_order == pipeline.checkpoint_order
    IN IF HasNextCheckpoint(current_position, checkpoint_order)
       THEN LET next_checkpoint_id == checkpoint_order[current_position + 2]
                st3 == [st2 EXCEPT !.fs = delete_temp_execution_directory(@, execution_id)]
                next_execution_id == FreshExecutionId(st3, run_id)
                st4 == create_checkpoint_execution(st3, run_id, next_checkpoint_id,
                                                   current_position + 1)
                requires_approval ==
                    checkpoint_defs[next_checkpoint_id].requires_approval_to_start
            IN Return([st4 EXCEPT
                   !.db.runs[run_id].current_checkpoint_id = next_checkpoint_id,
                   !.db.runs[run_id].current_checkpoint_position = current_position + 1,
                   !.db.execs[next_execution_id].status =
                       NextExecutionStatus(@, pipeline.auto_advance, requires_approval)])
       ELSE Return([st2 EXCEPT
                   !.db.runs[run_id].status = "completed",
                   !.db.runs[run_id].completed_at = TRUE,
                   !.db.runs[run_id].current_checkpoint_id = None,
                   !.db.runs[run_id].current_checkpoint_position = None,
                   !.fs = delete_temp_execution_directory(@, execution_id)])

\* approve_start without its status check
approve_start_any_status(st, execution_id) ==
    IF execution_id \notin DOMAIN st.db.execs THEN Raise(st, "not_found")
    ELSE Return(AppendInteraction(
                   [st EXCEPT !.db.execs[execution_id].status = "in_progress",
                              !.db.execs[execution_id].started_at = TRUE],
                   execution_id, "approval_to_start", "approved"))

approve_start(st, execution_id) ==
    IF execution_id \notin DOMAIN st.db.execs THEN Raise(st, "not_found")
    ELSE IF st.db.execs[execution_id].status # "waiting_approval_to_start"
    THEN Raise(st, "invalid_state")
    ELSE Return(AppendInteraction(
                   [st EXCEPT !.db.execs[execution_id].status = "in_progress",
                              !.db.execs[execution_id].started_at = TRUE],
                   execution_id, "approval_to_start", "approved"))

\* A uuid4 is fresh: the first artifact created for an execution gets the
\* execution's number, a further one a number no execution and no artifact has
FreshArtifactId(st, execution_id) ==
    execution_id + (MaxRunIds * MaxExecutions + 1) * Cardinality(ArtifactsOf(st.db, execution_id))

\* the save_as_artifact branch without the lookup of the existing artifact: every
\* submission writes a file under a new artifact_id and adds a record
SaveFormArtifactAlwaysNew(st, execution_id) ==
    LET artifact_name == <<"form_data">>
        artifact_id == FreshArtifactId(st, execution_id)
        artifact_file == get_artifact_staging_path(execution_id, artifact_name, artifact_id)
    IN [st EXCEPT !.fs.files = @ \cup {artifact_file},
                  !.db.artifacts =
                      (artifact_id :>
                          [execution_id |-> execution_id,
                           artifact_id |-> artifact_id,
                           artifact_name |-> artifact_name,
                           file_path |-> artifact_file,
                           promoted_to_permanent_at |-> FALSE]) @@ @]

\* the save_as_artifact branch of submit_form_data: write the staged file and
\* update the execution's artifact of that name, or create it
SaveFormArtifact(st, execution_id) ==
    LET artifact_name == <<"form_data">>
        existing == {a \in ArtifactsOf(st.db, execution_id) :
                        st.db.artifacts[a].artifact_name = artifact_name}
        existing_artifact == IF existing = {} THEN None ELSE CHOOSE a \in existing : TRUE
        artifact_id == IF existing_artifact # None
                       THEN st.db.artifacts[existing_artifact].artifact_id
                       ELSE FreshArtifactId(st, execution_id)
        artifact_file == get_artifact_staging_path(execution_id, artifact_name, artifact_id)
        st1 == [st EXCEPT !.fs.files = @ \cup {artifact_file}]
    IN IF existing_artifact # None
       THEN [st1 EXCEPT !.db.artifacts[existing_artifact].file_path = artifact_file]
       ELSE [st1 EXCEPT !.db.artifacts =
                            (artifact_id :>
                                [execution_id |-> execution_id,
                                 artifact_id |-> artifact_id,
                                 artifact_name |-> artifact_name,
                                 file_path |-> artifact_file,
                                 promoted_to_permanent_at |-> FALSE]) @@ @]

\* the start-approval key read where the completion-approval key is meant
requires_approval_key_mixed_up(checkpoint_def) ==
    checkpoint_def.requires_approval_to_start

\* human_interaction.get("requires_approval_to_complete", False)
requires_approval_to_complete(checkpoint_def) ==
    checkpoint_def.requires_approval_to_complete

submit_form_data(st, execution_id) ==
    IF execution_id \notin DOMAIN st.db.execs THEN Raise(st, "not_found")
    ELSE IF st.db.execs[execution_id].status # "in_progress"
    THEN Raise(st, "invalid_state")
    ELSE
      LET checkpoint_def == checkpoint_defs[st.db.execs[execution_id].checkpoint_id]
          st1 == [st EXCEPT !.fs.temp_dirs = @ \cup {execution_id}]
          st2 == AppendInteraction(st1, execution_id, "script_input", "form_data")
          st3 == IF checkpoint_def.save_as_artifact
                 THEN SaveFormArtifact(st2, execution_id)
                 ELSE st2
      IN IF requires_approval_to_complete(checkpoint_def)
         THEN Return([st3 EXCEPT
                         !.db.execs[execution_id].status = "waiting_approval_to_complete"])
         ELSE _complete_checkpoint_and_advance(st3, execution_id, TRUE)

\* approve_complete without its status check
approve_complete_any_status(st, execution_id, promote_artifacts) ==
    IF execution_id \notin DOMAIN st.db.execs THEN Raise(st, "not_found")
    ELSE _complete_checkpoint_and_advance(st, execution_id, promote_artifacts)

approve_complete(st, execution_id, promote_artifacts) ==
    IF execution_id \notin DOMAIN st.db.execs THEN Raise(st, "not_found")
    ELSE IF st.db.execs[execution_id].status # "waiting_approval_to_complete"
    THEN Raise(st, "invalid_state")
    ELSE _complete_checkpoint_and_advance(st, execution_id, promote_artifacts)

\* request_revision without its status check
request_revision_any_status(st, execution_id) ==
    IF execution_id \notin DOMAIN st.db.execs THEN Raise(st, "not_found")
    ELSE
      LET execution == st.db.execs[execution_id] IN
      IF execution.revision_iteration >= execution.max_revision_iterations
      THEN Raise(AppendInteraction(
                     [st EXCEPT !.db.execs[execution_id].status = "failed",
                                !.db.execs[execution_id].failed_at = TRUE],
                     execution_id, "revision_request", "feedback"),
                 "max_revisions_exceeded")
      ELSE Return(AppendInteraction(
                     [st EXCEPT !.db.execs[execution_id].revision_iteration = @ + 1,
                                !.db.execs[execution_id].status = "in_progress"],
                     execution_id, "revision_request", "feedback"))

request_revision(st, execution_id) ==
    IF execution_id \notin DOMAIN st.db.execs THEN Raise(st, "not_found")
    ELSE IF st.db.execs[execution_id].status # "waiting_approval_to_complete"
    THEN Raise(st, "invalid_state")
    ELSE
      LET execution == st.db.execs[execution_id] IN
      IF execution.revision_iteration >= execution.max_revision_iterations
      THEN Raise(AppendInteraction(
                     [st EXCEPT !.db.execs[execution_id].status = "failed",
                                !.db.execs[execution_id].failed_at = TRUE],
                     execution_id, "revision_request", "feedback"),
                 "max_revisions_exceeded")
      ELSE Return(AppendInteraction(
                     [st EXCEPT !.db.execs[execution_id].revision_iteration = @ + 1,
                                !.db.execs[execution_id].status = "in_progress"],
                     execution_id, "revision_request", "feedback"))

\* --------------------------------------------------------- RollbackService
\* the list indexed as Python indexes it, a negative position counting from the end
_get_checkpoint_at_any_index(position) ==
    LET n == Len(pipeline.checkpoint_order)
    IN IF -n <= position /\ position < n
       THEN pipeline.checkpoint_order[((position + n) % n) + 1]
       ELSE None

\* the checkpoint at an index of the pipeline's current checkpoint_order, or None
_get_checkpoint_at_position(position) ==
    IF 0 <= position /\ position < Len(pipeline.checkpoint_order)
    THEN pipeline.checkpoint_order[position + 1]
    ELSE None

\* .archived/rollback_{rollback_id}_{timestamp}/archived_data/artifacts/{name}_{id}_v{n}
ArchivedArtifactPath(rollback_id, artifact, run_version) ==
    Path("archived", rollback_id, run_version, 0, 0,
         artifact.artifact_name \o <<artifact.artifact_id, run_version>>)

\* .../archived_data/missing/{original file name}: returned, never written
MissingArtifactPath(rollback_id, artifact) ==
    Path("archived_missing", rollback_id, 0, 0, 0, artifact.file_path.stem)

\* the relative string recorded for an archived execution; nothing is written there
ArchivedExecutionPath(execution_id) ==
    Path("relative", execution_id, 0, 0, 0, <<"execution">>)

\* .../archived_data/v{n}: the copy of the run directory
ArchivedRunPath(rollback_id, run_version) ==
    Path("archived", rollback_id, run_version, 0, 0, <<"run_dir">>)

\* the completed executions of the run in ascending position, each with its
\* checkpoint and whether it is at the run's current position
RECURSIVE RollbackPoints(_, _, _)
RollbackPoints(d, run_id, ids) ==
    IF ids = {} THEN <<>>
    ELSE LET e == CHOOSE x \in ids : \A y \in ids :
                     d.execs[x].checkpoint_position <= d.execs[y].checkpoint_position
             execution == d.execs[e]
             point == [checkpoint_id |-> execution.checkpoint_id,
                       checkpoint_position |-> execution.checkpoint_position,
                       execution_id |-> e,
                       completed_at |-> execution.completed_at,
                       is_current |-> execution.checkpoint_position =
                                          d.runs[run_id].current_checkpoint_position]
         IN (IF execution.checkpoint_id \in DOMAIN checkpoint_defs THEN <<point>> ELSE <<>>)
            \o RollbackPoints(d, run_id, ids \ {e})

get_available_rollback_points(st, run_id) ==
    IF run_id \notin DOMAIN st.db.runs THEN <<>>
    ELSE RollbackPoints(st.db, run_id,
                        {e \in ExecutionsOfRun(st.db, run_id) :
                            st.db.execs[e].status = "completed"})

\* checkpoint_level_rollback without the return for an empty executions_to_delete
checkpoint_level_rollback_without_no_op(st, run_id, target_checkpoint_position, copy_fails) ==
    IF run_id \notin DOMAIN st.db.runs THEN Raise(st, "not_found")
    ELSE
      LET run == st.db.runs[run_id]
          target_checkpoint == _get_checkpoint_at_position(target_checkpoint_position)
          rollback_id == st.nx.rollback
          rollback_event == [source_run_id |-> run_id,
                             source_run_version |-> run.run_version,
                             rollback_type |-> "checkpoint_level",
                             target_run_id |-> run_id,
                             target_checkpoint_id |-> target_checkpoint,
                             target_checkpoint_position |-> target_checkpoint_position]
      IN IF target_checkpoint = None THEN Raise(st, "no_checkpoint_at_position")
         ELSE Return([st EXCEPT
                  !.nx.rollback = @ + 1,
                  !.fs.archive_dirs = @ \cup {rollback_id},
                  !.db.rollback_events = (rollback_id :> rollback_event) @@ @,
                  !.db.runs[run_id].current_checkpoint_id = target_checkpoint,
                  !.db.runs[run_id].current_checkpoint_position =
                      target_checkpoint_position])

\* shutil.copy2 and shutil.copytree raise for the copies named in copy_fails
\* (disk full, permissions).  The steps of a rollback take and give a handler
\* result; once one has raised, the steps after it do not run.
_archive_artifact(r, rollback_id, a, run_version, copy_fails) ==
    IF r.res # "ok" THEN r
    ELSE
      LET st == r.st
          artifact == st.db.artifacts[a]
          exists == artifact.file_path \in st.fs.files
          archived_path == IF exists
                           THEN ArchivedArtifactPath(rollback_id, artifact, run_version)
                           ELSE MissingArtifactPath(rollback_id, artifact)
          item == [rollback_id |-> rollback_id, item_type |-> "artifact", item_id |-> a,
                   original_path |-> artifact.file_path, archived_path |-> archived_path]
      IN IF exists /\ <<"artifact", a>> \in copy_fails
         THEN Raise(st, "archive_failure")
         ELSE Return([st EXCEPT !.fs.files = IF exists THEN @ \cup {archived_path} ELSE @,
                                !.db.archived_items = @ \cup {item}])

RECURSIVE ArchiveArtifacts(_, _, _, _, _)
ArchiveArtifacts(r, rollback_id, ids, run_version, copy_fails) ==
    IF ids = {} THEN r
    ELSE LET a == CHOOSE x \in ids : \A y \in ids : x <= y
         IN ArchiveArtifacts(
                _archive_artifact(r, rollback_id, a, run_version, copy_fails),
                rollback_id, ids \ {a}, run_version, copy_fails)

\* shutil.rmtree(self.fm.base_path / execution.temp_workspace_path), if it exists:
\* temp_workspace_path already starts with base_path, so with a relative
\* BASE_PIPELINES_PATH the joined path names no existing directory
RemoveTempWorkspace(f, execution_id) ==
    IF BASE_PIPELINES_PATH_IS_ABSOLUTE
    THEN delete_temp_execution_directory(f, execution_id)
    ELSE f

\* the execution deleted with its cascade, nothing archived or recorded
DeleteExecutionUnarchived(r, rollback_id, execution_id, run_version, copy_fails) ==
    Return([r.st EXCEPT
        !.db.execs = Restrict(@, DOMAIN @ \ {execution_id}),
        !.db.interactions = Restrict(@, DOMAIN @ \ {execution_id}),
        !.db.artifacts = Restrict(@, DOMAIN @ \ ArtifactsOf(r.st.db, execution_id))])

\* the body of the loop over the executions to delete: archive the artifacts,
\* remove the temp workspace, record the execution, delete it with its cascade
ArchiveAndDeleteExecution(r, rollback_id, execution_id, run_version, copy_fails) ==
    LET artifacts == ArtifactsOf(r.st.db, execution_id)
        r1 == ArchiveArtifacts(r, rollback_id, artifacts, run_version, copy_fails)
        item == [rollback_id |-> rollback_id, item_type |-> "checkpoint_execution",
                 item_id |-> execution_id,
                 original_path |-> ArchivedExecutionPath(execution_id),
                 archived_path |-> ArchivedExecutionPath(execution_id)]
    IN IF r1.res # "ok" THEN r1
       ELSE Return([r1.st EXCEPT
              !.fs = RemoveTempWorkspace(@, execution_id),
              !.db.archived_items = @ \cup {item},
              !.db.execs = Restrict(@, DOMAIN @ \ {execution_id}),
              !.db.interactions = Restrict(@, DOMAIN @ \ {execution_id}),
              !.db.artifacts = Restrict(@, DOMAIN @ \ artifacts)])

\* the loop over the executions to delete, in the order the query gave them
RECURSIVE DeleteExecutions(_, _, _, _, _)
DeleteExecutions(r, rollback_id, executions, run_version, copy_fails) ==
    IF executions = <<>> THEN r
    ELSE DeleteExecutions(
             ArchiveAndDeleteExecution(r, rollback_id, Head(executions), run_version,
                                       copy_fails),
             rollback_id, Tail(executions), run_version, copy_fails)

\* the same rows, lowest checkpoint_position first
RECURSIVE order_by_checkpoint_position_asc(_, _)
order_by_checkpoint_position_asc(d, ids) ==
    IF ids = {} THEN <<>>
    ELSE LET e == CHOOSE x \in ids : \A y \in ids :
                     d.execs[x].checkpoint_position <= d.execs[y].checkpoint_position
         IN <<e>> \o order_by_checkpoint_position_asc(d, ids \ {e})

\* .order_by(CheckpointExecution.checkpoint_position.desc())
RECURSIVE order_by_checkpoint_position_desc(_, _)
order_by_checkpoint_position_desc(d, ids) ==
    IF ids = {} THEN <<>>
    ELSE LET e == CHOOSE x \in ids : \A y \in ids :
                     d.execs[y].checkpoint_position <= d.execs[x].checkpoint_position
         IN <<e>> \o order_by_checkpoint_position_desc(d, ids \ {e})

checkpoint_level_rollback(st, run_id, target_checkpoint_position, copy_fails) ==
    IF run_id \notin DOMAIN st.db.runs THEN Raise(st, "not_found")
    ELSE
      LET run == st.db.runs[run_id]
          target_checkpoint == _get_checkpoint_at_position(target_checkpoint_position)
          executions_to_delete ==
              order_by_checkpoint_position_desc(st.db,
                  {e \in DOMAIN st.db.execs :
                      /\ st.db.execs[e].run_id = run_id
                      /\ st.db.execs[e].checkpoint_position > target_checkpoint_position})
          rollback_id == st.nx.rollback
      IN IF target_checkpoint = None THEN Raise(st, "no_checkpoint_at_position")
         ELSE IF executions_to_delete = <<>> THEN [st |-> st, res |-> "no_op"]
         ELSE
           LET st1 == [st EXCEPT !.nx.rollback = @ + 1,
                                 !.fs.archive_dirs = @ \cup {rollback_id}]
               r2 == DeleteExecutions(Return(st1), rollback_id, executions_to_delete,
                                      run.run_version, copy_fails)
               rollback_event == [source_run_id |-> run_id,
                                  source_run_version |-> run.run_version,
                                  rollback_type |-> "checkpoint_level",
                                  target_run_id |-> run_id,
                                  target_checkpoint_id |-> target_checkpoint,
                                  target_checkpoint_position |-> target_checkpoint_position]
           IN IF r2.res # "ok" THEN r2
              ELSE Return([r2.st EXCEPT
                  !.db.rollback_events = (rollback_id :> rollback_event) @@ @,
                  !.db.runs[run_id].status =
                      IF @ = "completed" THEN "in_progress" ELSE @,
                  !.db.runs[run_id].completed_at =
                      IF run.status = "completed" THEN FALSE ELSE @,
                  !.db.runs[run_id].current_checkpoint_id = target_checkpoint,
                  !.db.runs[run_id].current_checkpoint_position =
                      target_checkpoint_position])

\* a run_id and a pipeline_id are uuid4 strings drawn independently of each
\* other: the id of a run is never the id of a pipeline
SameId(run_id, pipeline_id) == FALSE

RECURSIVE order_by_created_at_desc(_)
order_by_created_at_desc(ids) ==
    IF ids = {} THEN <<>>
    ELSE <<Max(ids)>> \o order_by_created_at_desc(ids \ {Max(ids)})

\* get_rollback_history of the RollbackService made for pipeline_id: the ids of
\* the events returned, in the order returned; run_id is None when not given
get_rollback_history(d, pipeline_id, run_id, limit) ==
    LET of_pipeline == {rb \in DOMAIN d.rollback_events :
                           SameId(d.rollback_events[rb].source_run_id, pipeline_id)}
        query == IF run_id # None
                 THEN {rb \in of_pipeline : d.rollback_events[rb].source_run_id = run_id}
                 ELSE of_pipeline
        events == order_by_created_at_desc(query)
    IN SubSeq(events, 1, IF limit < Len(events) THEN limit ELSE Len(events))

\* the run row is kept
KeepRun(d, run_id) == d

\* session.delete(run): the run row and, by the delete cascade of its
\* rollback_events relationship, the RollbackEvents it is the source of, with
\* their ArchivedItems
DeleteRun(d, run_id) ==
    LET gone == {rb \in DOMAIN d.rollback_events :
                    d.rollback_events[rb].source_run_id = run_id}
    IN [d EXCEPT !.runs = Restrict(@, DOMAIN @ \ {run_id}),
                 !.rollback_events = Restrict(@, DOMAIN @ \ gone),
                 !.archived_items = {i \in @ : i.rollback_id \notin gone}]

\* the executions of a run to delete are selected without ORDER BY: the rows come
\* in the order of the index the query scans, here either order of the positions
ScanOrder(d, ids, scan_descending) ==
    LET descending == order_by_checkpoint_position_desc(d, ids)
    IN IF scan_descending THEN descending
       ELSE [i \in 1..Len(descending) |-> descending[Len(descending) + 1 - i]]

\* the body of the loop over the runs to delete
ArchiveAndDeleteRun(r, rollback_id, run_id, scan_descending, copy_fails) ==
    LET run == r.st.db.runs[run_id]
        executions == ScanOrder(r.st.db, ExecutionsOfRun(r.st.db, run_id), scan_descending)
        r1 == DeleteExecutions(r, rollback_id, executions, run.run_version, copy_fails)
        st1 == r1.st
        has_dir == run.run_version \in st1.fs.run_dirs
        archived_run_dir == ArchivedRunPath(rollback_id, run.run_version)
        item == [rollback_id |-> rollback_id, item_type |-> "run", item_id |-> run_id,
                 original_path |-> Path("runs", 0, run.run_version, 0, 0, <<"run_dir">>),
                 archived_path |-> archived_run_dir]
        st2 == IF has_dir
               THEN [st1 EXCEPT !.fs.files = @ \cup {archived_run_dir},
                                !.db.archived_items = @ \cup {item}]
               ELSE st1
    IN IF r1.res # "ok" THEN r1
       ELSE IF has_dir /\ <<"run", run_id>> \in copy_fails
       THEN Raise(st1, "archive_failure")
       ELSE Return([st2 EXCEPT !.db = DeleteRun(@, run_id)])

\* the loop over runs_to_delete
RECURSIVE DeleteRuns(_, _, _, _, _)
DeleteRuns(r, rollback_id, runs, scan_descending, copy_fails) ==
    IF runs = <<>> \/ r.res # "ok" THEN r
    ELSE DeleteRuns(
             ArchiveAndDeleteRun(r, rollback_id, Head(runs), scan_descending, copy_fails),
             rollback_id, Tail(runs), scan_descending, copy_fails)

\* .order_by(PipelineRun.run_version.desc())
RECURSIVE order_by_run_version_desc(_, _)
order_by_run_version_desc(d, ids) ==
    IF ids = {} THEN <<>>
    ELSE LET run_id == CHOOSE x \in ids : \A y \in ids :
                          d.runs[y].run_version <= d.runs[x].run_version
         IN <<run_id>> \o order_by_run_version_desc(d, ids \ {run_id})

run_level_rollback(st, current_run_id, target_run_id, target_checkpoint_position, scan_descending, copy_fails) ==
    IF current_run_id \notin DOMAIN st.db.runs \/ target_run_id \notin DOMAIN st.db.runs
    THEN Raise(st, "not_found")
    ELSE
      LET current_run == st.db.runs[current_run_id]
          target_run == st.db.runs[target_run_id]
          target_checkpoint == _get_checkpoint_at_position(target_checkpoint_position)
          runs_to_delete ==
              order_by_run_version_desc(st.db,
                  {r \in DOMAIN st.db.runs :
                      st.db.runs[r].run_version > target_run.run_version})
          rollback_id == st.nx.rollback
      IN IF target_checkpoint = None THEN Raise(st, "no_checkpoint_at_position")
         ELSE IF runs_to_delete = <<>> THEN [st |-> st, res |-> "no_op"]
         ELSE
           LET st1 == [st EXCEPT !.nx.rollback = @ + 1,
                                 !.fs.archive_dirs = @ \cup {rollback_id}]
               r2 == DeleteRuns(Return(st1), rollback_id, runs_to_delete,
                                scan_descending, copy_fails)
               rollback_event == [source_run_id |-> current_run_id,
                                  source_run_version |-> current_run.run_version,
                                  rollback_type |-> "run_level",
                                  target_run_id |-> target_run_id,
                                  target_checkpoint_id |-> target_checkpoint,
                                  target_checkpoint_position |-> target_checkpoint_position]
           IN IF r2.res # "ok" THEN r2
              ELSE Return([r2.st EXCEPT
                  !.db.rollback_events = (rollback_id :> rollback_event) @@ @,
                  !.db.runs[target_run_id].status =
                      IF @ = "completed" THEN "in_progress" ELSE @,
                  !.db.runs[target_run_id].completed_at =
                      IF target_run.status = "completed" THEN FALSE ELSE @,
                  !.db.runs[target_run_id].current_checkpoint_id = target_checkpoint,
                  !.db.runs[target_run_id].current_checkpoint_position =
                      target_checkpoint_position,
                  !.fs.latest = target_run.run_version])

\* ------------------------------------------------------------------- Init
HumanInteractionSettings ==
    [requires_approval_to_start : BOOLEAN,
     requires_approval_to_complete : BOOLEAN]

\* the tables and the directory tree of a pipeline that has no run yet
NoRuns ==
    /\ db = [runs |-> <<>>, execs |-> <<>>, artifacts |-> <<>>, interactions |-> <<>>,
             rollback_events |-> <<>>, archived_items |-> {}]
    /\ fs = [temp_dirs |-> {}, run_dirs |-> {}, files |-> {}, archive_dirs |-> {},
             latest |-> None]
    /\ nx = [run |-> 1, execution |-> [r \in 1..MaxRunIds |-> 0], rollback |-> 1]
    /\ in_flight = [op |-> "none"]

Init ==
    /\ BASE_PIPELINES_PATH = "./pipelines"
    /\ \E n \in 0..MaxCheckpoints, auto \in BOOLEAN :
          pipeline = [checkpoint_order |-> [i \in 1..n |-> i], auto_advance |-> auto]
    /\ \E hi \in [1..Len(pipeline.checkpoint_order) -> HumanInteractionSettings],
          m \in 0..MaxRevisionLimit :
          checkpoint_defs =
              [c \in 1..Len(pipeline.checkpoint_order) |->
                  [requires_approval_to_start |-> hi[c].requires_approval_to_start,
                   requires_approval_to_complete |-> hi[c].requires_approval_to_complete,
                   max_revision_iterations |-> m,
                   save_as_artifact |-> TRUE]]
    /\ NoRuns

\* ---------------------------------------------------------------- actions
\* request inputs: every id in the tables and one that names no row; every index
\* of checkpoint_order, one below and one above
RunIdInputs == DOMAIN db.runs \cup {0}

ExecutionIdInputs == DOMAIN db.execs \cup {0}

PositionInputs == -1..Len(pipeline.checkpoint_order)

\* the indexes of the pipeline's current checkpoint_order
Positions == 0..(Len(pipeline.checkpoint_order) - 1)

\* the executions of the run beyond position p
ExecutionsBeyond(d, run_id, p) ==
    {e \in ExecutionsOfRun(d, run_id) : d.execs[e].checkpoint_position > p}

\* executions created so far, over all runs
RECURSIVE SumTo(_, _)
SumTo(f, n) == IF n = 0 THEN 0 ELSE f[n] + SumTo(f, n - 1)

ExecutionsCreated(n) == SumTo(n.execution, MaxRunIds)

\* the committed state a request leaves, given what its handler did
Committed(r) == get_db(State, r)

\* one request: the handler runs on the committed state inside get_db
Commit(r) ==
    LET st == Committed(r) IN
    /\ ExecutionsCreated(st.nx) <= MaxExecutions
    /\ db' = st.db
    /\ fs' = st.fs
    /\ nx' = st.nx
    /\ UNCHANGED <<BASE_PIPELINES_PATH, pipeline, checkpoint_defs, in_flight>>

\* a run created for the other pipeline would not be in these tables: requests
\* for it are taken up only where they name a run to extend from
PipelineIdInputs == {"pipeline", "other_pipeline", "unknown"}

CreateRun ==
    /\ nx.run <= MaxRuns
    /\ \E pipeline_id \in PipelineIdInputs, extends_from_run_id \in {None} \cup RunIdInputs :
          /\ pipeline_id = "other_pipeline" => extends_from_run_id # None
          /\ Commit(create_run(State, pipeline_id, extends_from_run_id))

StartRun ==
    \E run_id \in RunIdInputs : Commit(start_run(State, run_id))

ApproveStart ==
    \E execution_id \in ExecutionIdInputs :
        Commit(approve_start(State, execution_id))

SubmitFormData ==
    \E execution_id \in ExecutionIdInputs :
        Commit(submit_form_data(State, execution_id))

ApproveComplete ==
    \E execution_id \in ExecutionIdInputs, promote_artifacts \in BOOLEAN :
        Commit(approve_complete(State, execution_id, promote_artifacts))

RequestRevision ==
    \E execution_id \in ExecutionIdInputs :
        Commit(request_revision(State, execution_id))

CheckpointLevelRollback ==
    \E run_id \in RunIdInputs, target_checkpoint_position \in PositionInputs :
        Commit(checkpoint_level_rollback(State, run_id, target_checkpoint_position, {}))

RunLevelRollback ==
    \E current_run_id \in RunIdInputs, target_run_id \in RunIdInputs,
       target_checkpoint_position \in PositionInputs, scan_descending \in BOOLEAN :
        Commit(run_level_rollback(State, current_run_id, target_run_id,
                                  target_checkpoint_position, scan_descending, {}))

Next ==
    \/ CreateRun
    \/ StartRun
    \/ ApproveStart
    \/ SubmitFormData
    \/ ApproveComplete
    \/ RequestRevision
    \/ CheckpointLevelRollback
    \/ RunLevelRollback

Spec == Init /\ [][Next]_vars

\* ------------------------------------------------- rollbacks whose copy fails
\* a longer pipeline, all its checkpoints with the same settings, under either
\* kind of BASE_PIPELINES_PATH
InitLongPipeline ==
    /\ BASE_PIPELINES_PATH \in {"./pipelines", "/srv/pipelines"}
    /\ \E auto \in BOOLEAN :
          pipeline = [checkpoint_order |-> [i \in 1..MaxCheckpoints + 1 |-> i],
                      auto_advance |-> auto]
    /\ \E hi \in HumanInteractionSettings :
          checkpoint_defs =
              [c \in 1..Len(pipeline.checkpoint_order) |->
                  [requires_approval_to_start |-> hi.requires_approval_to_start,
                   requires_approval_to_complete |-> hi.requires_approval_to_complete,
                   max_revision_iterations |-> 0,
                   save_as_artifact |-> TRUE]]
    /\ NoRuns

\* the copies a rollback may make: an artifact's file, a run's directory
CopyInputs ==
    {<<"artifact", a>> : a \in DOMAIN db.artifacts} \cup {<<"run", r>> : r \in DOMAIN db.runs}

CheckpointLevelRollbackCopyFails ==
    /\ nx.rollback <= MaxRollbacks
    /\ \E run_id \in RunIdInputs, target_checkpoint_position \in PositionInputs,
          copy \in CopyInputs :
          Commit(checkpoint_level_rollback(State, run_id, target_checkpoint_position,
                                           {copy}))

RunLevelRollbackCopyFails ==
    /\ nx.rollback <= MaxRollbacks
    /\ \E current_run_id \in RunIdInputs, target_run_id \in RunIdInputs,
          target_checkpoint_position \in PositionInputs, scan_descending \in BOOLEAN,
          copy \in CopyInputs :
          Commit(run_level_rollback(State, current_run_id, target_run_id,
                                    target_checkpoint_position, scan_descending, {copy}))

NextCopyFails ==
    \/ Next
    \/ CheckpointLevelRollbackCopyFails
    \/ RunLevelRollbackCopyFails

SpecCopyFails == InitLongPipeline /\ [][NextCopyFails]_vars

\* ----------------------------------------------------------- run lineage
\* a pipeline of one checkpoint for which one more run can be created, so that
\* a run can follow a run-level rollback
InitLineage ==
    /\ BASE_PIPELINES_PATH = "./pipelines"
    /\ \E auto \in BOOLEAN :
          pipeline = [checkpoint_order |-> <<1>>, auto_advance |-> auto]
    /\ \E hi \in HumanInteractionSettings :
          checkpoint_defs =
              [c \in 1..Len(pipeline.checkpoint_order) |->
                  [requires_approval_to_start |-> hi.requires_approval_to_start,
                   requires_approval_to_complete |-> hi.requires_approval_to_complete,
                   max_revision_iterations |-> 0,
                   save_as_artifact |-> TRUE]]
    /\ NoRuns

CreateRunLineage ==
    /\ nx.run <= MaxRunIds
    /\ \E pipeline_id \in PipelineIdInputs, extends_from_run_id \in {None} \cup RunIdInputs :
          /\ pipeline_id = "other_pipeline" => extends_from_run_id # None
          /\ Commit(create_run(State, pipeline_id, extends_from_run_id))

\* with one checkpoint and no revisions allowed, request_revision is always
\* refused and a checkpoint-level rollback never has an execution to delete
NextLineage ==
    \/ CreateRunLineage
    \/ StartRun
    \/ ApproveStart
    \/ SubmitFormData
    \/ ApproveComplete
    \/ RunLevelRollback

SpecLineage == InitLineage /\ [][NextLineage]_vars

\* ------------------------------------------- requests in their own sessions
\* The route handlers are plain functions, which the server runs in a thread
\* pool, each with the session get_db gives it (autoflush off).  A SELECT takes
\* no lock that outlives it, so between the rows a handler has loaded and its
\* first flush another request can run and commit.  The handler then goes on
\* with the objects it loaded: what it reads by a new query is the committed
\* state, what it writes is an UPDATE or DELETE by primary key.

\* the session's view at the write phase: the committed rows and, for an
\* execution whose row is gone, the object the session loaded
ViewWithLoaded(st, execution_id, execution) ==
    IF execution_id \in DOMAIN st.db.execs THEN st
    ELSE [st EXCEPT !.db.execs = (execution_id :> execution) @@ @,
                    !.db.interactions = (execution_id :> <<>>) @@ @]

\* the flush of an object whose row is gone matches no row: StaleDataError
FlushLoaded(st, execution_id, r) ==
    IF execution_id \in DOMAIN st.db.execs \/ r.res # "ok" THEN r
    ELSE Raise(r.st, "stale_data")

\* approve_complete from the point after its status check
approve_complete_after_check(st, execution_id, promote_artifacts, execution) ==
    IF execution.run_id \notin DOMAIN st.db.runs THEN Raise(st, "no_result")
    ELSE FlushLoaded(st, execution_id,
             _complete_checkpoint_and_advance(
                 ViewWithLoaded(st, execution_id, execution), execution_id,
                 promote_artifacts))

\* submit_form_data from the point after its status check
submit_form_data_after_check(st, execution_id, execution) ==
    IF execution.run_id \notin DOMAIN st.db.runs THEN Raise(st, "no_result")
    ELSE
      LET checkpoint_def == checkpoint_defs[execution.checkpoint_id]
          view == ViewWithLoaded(st, execution_id, execution)
          st1 == [view EXCEPT !.fs.temp_dirs = @ \cup {execution_id}]
          st2 == AppendInteraction(st1, execution_id, "script_input", "form_data")
          st3 == IF checkpoint_def.save_as_artifact
                 THEN SaveFormArtifact(st2, execution_id)
                 ELSE st2
      IN FlushLoaded(st, execution_id,
             IF requires_approval_to_complete(checkpoint_def)
             THEN Return([st3 EXCEPT !.db.execs[execution_id].status =
                                         "waiting_approval_to_complete"])
             ELSE _complete_checkpoint_and_advance(st3, execution_id, TRUE))

\* checkpoint_level_rollback from the point after its queries: the run and the
\* executions to delete are the objects loaded then; the artifacts of each are
\* queried in the loop.  The DELETE of a row that is gone matches no row, which
\* the flush reports as a warning; the UPDATE of a run that is gone raises.
checkpoint_level_rollback_after_read(st, run_id, target_checkpoint_position, run, executions_to_delete) ==
    LET target_checkpoint == _get_checkpoint_at_position(target_checkpoint_position)
        rollback_id == st.nx.rollback
        st1 == [st EXCEPT !.nx.rollback = @ + 1,
                          !.fs.archive_dirs = @ \cup {rollback_id}]
        r2 == DeleteExecutions(Return(st1), rollback_id, executions_to_delete,
                               run.run_version, {})
        rollback_event == [source_run_id |-> run_id,
                           source_run_version |-> run.run_version,
                           rollback_type |-> "checkpoint_level",
                           target_run_id |-> run_id,
                           target_checkpoint_id |-> target_checkpoint,
                           target_checkpoint_position |-> target_checkpoint_position]
    IN IF run_id \notin DOMAIN st.db.runs THEN Raise(r2.st, "stale_data")
       ELSE Return([r2.st EXCEPT
                !.db.rollback_events = (rollback_id :> rollback_event) @@ @,
                !.db.runs[run_id].status =
                    IF run.status = "completed" THEN "in_progress" ELSE @,
                !.db.runs[run_id].completed_at =
                    IF run.status = "completed" THEN FALSE ELSE @,
                !.db.runs[run_id].current_checkpoint_id = target_checkpoint,
                !.db.runs[run_id].current_checkpoint_position =
                    target_checkpoint_position])

\* a pipeline of MaxCheckpoints checkpoints, all with the same settings and none
\* asking for approval to start
InitConcurrent ==
    /\ BASE_PIPELINES_PATH = "./pipelines"
    /\ \E auto \in BOOLEAN :
          pipeline = [checkpoint_order |-> [i \in 1..MaxCheckpoints |-> i],
                      auto_advance |-> auto]
    /\ \E approval \in BOOLEAN :
          checkpoint_defs =
              [c \in 1..Len(pipeline.checkpoint_order) |->
                  [requires_approval_to_start |-> FALSE,
                   requires_approval_to_complete |-> approval,
                   max_revision_iterations |-> 0,
                   save_as_artifact |-> TRUE]]
    /\ NoRuns

\* a handler loads its rows, passes its checks and is overtaken
Begin(request) ==
    /\ in_flight.op = "none"
    /\ in_flight' = request
    /\ UNCHANGED <<BASE_PIPELINES_PATH, pipeline, checkpoint_defs, db, fs, nx>>

\* the handler goes on, flushes, and get_db commits or rolls back
Finish(r) ==
    LET st == Committed(r) IN
    /\ ExecutionsCreated(st.nx) <= MaxExecutions
    /\ db' = st.db
    /\ fs' = st.fs
    /\ nx' = st.nx
    /\ in_flight' = [op |-> "none"]
    /\ UNCHANGED <<BASE_PIPELINES_PATH, pipeline, checkpoint_defs>>

BeginApproveComplete ==
    \E execution_id \in DOMAIN db.execs, promote_artifacts \in BOOLEAN :
        /\ db.execs[execution_id].status = "waiting_approval_to_complete"
        /\ Begin([op |-> "approve_complete", execution_id |-> execution_id,
                  promote_artifacts |-> promote_artifacts,
                  execution |-> db.execs[execution_id]])

FinishApproveComplete ==
    /\ in_flight.op = "approve_complete"
    /\ Finish(approve_complete_after_check(State, in_flight.execution_id,
                                           in_flight.promote_artifacts,
                                           in_flight.execution))

BeginSubmitFormData ==
    \E execution_id \in DOMAIN db.execs :
        /\ db.execs[execution_id].status = "in_progress"
        /\ Begin([op |-> "submit_form_data", execution_id |-> execution_id,
                  execution |-> db.execs[execution_id]])

FinishSubmitFormData ==
    /\ in_flight.op = "submit_form_data"
    /\ Finish(submit_form_data_after_check(State, in_flight.execution_id,
                                           in_flight.execution))

BeginCheckpointLevelRollback ==
    \E run_id \in DOMAIN db.runs, target_checkpoint_position \in Positions :
        LET executions_to_delete ==
                order_by_checkpoint_position_desc(db,
                    ExecutionsBeyond(db, run_id, target_checkpoint_position))
        IN /\ executions_to_delete # <<>>
           /\ Begin([op |-> "checkpoint_level_rollback", run_id |-> run_id,
                     target_checkpoint_position |-> target_checkpoint_position,
                     run |-> db.runs[run_id],
                     executions_to_delete |-> executions_to_delete])

FinishCheckpointLevelRollback ==
    /\ in_flight.op = "checkpoint_level_rollback"
    /\ Finish(checkpoint_level_rollback_after_read(
                  State, in_flight.run_id, in_flight.target_checkpoint_position,
                  in_flight.run, in_flight.executions_to_delete))

\* the pipeline's first run; the requests examined here are all on one run
CreateFirstRun ==
    /\ nx.run = 1
    /\ \E pipeline_id \in PipelineIdInputs, extends_from_run_id \in {None} \cup RunIdInputs :
          /\ pipeline_id = "other_pipeline" => extends_from_run_id # None
          /\ Commit(create_run(State, pipeline_id, extends_from_run_id))

\* request_revision is left out: with no revisions allowed it is always refused
NextConcurrent ==
    \/ CreateFirstRun
    \/ StartRun
    \/ ApproveStart
    \/ SubmitFormData
    \/ ApproveComplete
    \/ CheckpointLevelRollback
    \/ BeginApproveComplete
    \/ FinishApproveComplete
    \/ BeginSubmitFormData
    \/ FinishSubmitFormData
    \/ BeginCheckpointLevelRollback
    \/ FinishCheckpointLevelRollback

SpecConcurrent == InitConcurrent /\ [][NextConcurrent]_vars

\* --------------------------------------------- create_run in its own session
\* create_run from the point after its queries: the previous run and the next
\* version are what the session read; the INSERT of the flush is accepted
\* whatever rows exist by then, the indexes on (pipeline_id, run_version) not
\* being unique
create_run_after_read(st, previous_run_id, extends_from_run_version, run_version) ==
    LET run_id == st.nx.run
        run == [run_version |-> run_version,
                status |-> "not_started",
                current_checkpoint_id |-> None,
                current_checkpoint_position |-> None,
                previous_run_id |-> previous_run_id,
                extends_from_run_version |-> extends_from_run_version,
                started_at |-> FALSE,
                completed_at |-> FALSE]
    IN Return([st EXCEPT !.db.runs = (run_id :> run) @@ @,
                         !.fs.run_dirs = @ \cup {run_version},
                         !.nx.run = @ + 1])

BeginCreateRun ==
    /\ nx.run <= MaxRunIds
    /\ Len(pipeline.checkpoint_order) > 0
    /\ \E extends_from_run_id \in {None} \cup DOMAIN db.runs :
          LET previous_run == IF extends_from_run_id # None THEN extends_from_run_id
                              ELSE get_latest_valid_run(db)
          IN Begin([op |-> "create_run",
                    previous_run_id |-> previous_run,
                    extends_from_run_version |->
                        IF previous_run = None THEN None
                        ELSE db.runs[previous_run].run_version,
                    run_version |-> get_next_run_version(db)])

FinishCreateRun ==
    /\ in_flight.op = "create_run"
    /\ nx.run <= MaxRunIds
    /\ Finish(create_run_after_read(State, in_flight.previous_run_id,
                                    in_flight.extends_from_run_version,
                                    in_flight.run_version))

NextConcurrentCreate ==
    \/ CreateRunLineage
    \/ BeginCreateRun
    \/ FinishCreateRun
    \/ StartRun
    \/ SubmitFormData
    \/ RunLevelRollback

SpecConcurrentCreate == InitLineage /\ [][NextConcurrentCreate]_vars

\* ------------------------------------------------- a run left to its users
\* one run, no rollback and no edit of the definitions; each of the human
\* operations is performed if it stays possible
NextProgress ==
    \/ CreateFirstRun
    \/ StartRun
    \/ ApproveStart
    \/ SubmitFormData
    \/ ApproveComplete
    \/ RequestRevision

\* the requests that would succeed now
CanApproveStart ==
    \E execution_id \in DOMAIN db.execs : approve_start(State, execution_id).res = "ok"

CanSubmitFormData ==
    \E execution_id \in DOMAIN db.execs : submit_form_data(State, execution_id).res = "ok"

CanApproveComplete ==
    \E execution_id \in DOMAIN db.execs, promote_artifacts \in BOOLEAN :
        approve_complete(State, execution_id, promote_artifacts).res = "ok"

\* weak fairness of the three human operations, their enabling conditions
\* written out: an operation that stays possible is performed
SpecProgress ==
    /\ Init
    /\ [][NextProgress]_vars
    /\ ([]<>(~CanApproveStart) \/ []<><<ApproveStart>>_vars)
    /\ ([]<>(~CanSubmitFormData) \/ []<><<SubmitFormData>>_vars)
    /\ ([]<>(~CanApproveComplete) \/ []<><<ApproveComplete>>_vars)

\* ------------------------------------------------ edits of the definitions
\* session.delete(checkpoint): the CheckpointDefinition row goes and, by the
\* delete cascade of its checkpoint_executions relationship, every execution of
\* that checkpoint, in every run, with its interactions and artifact records
delete_checkpoint(d, checkpoint_id) ==
    LET gone == {e \in DOMAIN d.execs : d.execs[e].checkpoint_id = checkpoint_id}
    IN [d EXCEPT !.execs = Restrict(@, DOMAIN @ \ gone),
                 !.interactions = Restrict(@, DOMAIN @ \ gone),
                 !.artifacts = Restrict(@, {a \in DOMAIN @ : @[a].execution_id \notin gone})]

\* session.delete(pipeline): by the delete cascades the checkpoint definitions,
\* the runs, their executions, their RollbackEvents and the ArchivedItems go too
delete_pipeline(d) ==
    [d EXCEPT !.runs = <<>>, !.execs = <<>>, !.interactions = <<>>, !.artifacts = <<>>,
              !.rollback_events = <<>>, !.archived_items = {}]

\* CheckpointService.delete_checkpoint; an unknown id changes nothing
DeleteCheckpoint ==
    \E checkpoint_id \in DOMAIN checkpoint_defs :
        /\ pipeline' = [pipeline EXCEPT !.checkpoint_order =
                            SelectSeq(@, LAMBDA c : c # checkpoint_id)]
        /\ checkpoint_defs' = Restrict(checkpoint_defs, DOMAIN checkpoint_defs \ {checkpoint_id})
        /\ db' = delete_checkpoint(db, checkpoint_id)
        /\ UNCHANGED <<BASE_PIPELINES_PATH, fs, nx, in_flight>>

\* PipelineService.delete_pipeline: nothing of the pipeline is left in the
\* tables, its directory tree stays; every later request finds no pipeline
DeletePipeline ==
    /\ pipeline' = [pipeline EXCEPT !.checkpoint_order = <<>>]
    /\ checkpoint_defs' = <<>>
    /\ db' = delete_pipeline(db)
    /\ UNCHANGED <<BASE_PIPELINES_PATH, fs, nx, in_flight>>

NextDefinitions ==
    \/ Next
    \/ DeleteCheckpoint
    \/ DeletePipeline

SpecDefinitions == Init /\ [][NextDefinitions]_vars

\* ------------------------------------------------------------------ claims
\* C1: in every reachable state no run has two CheckpointExecution rows with the
\* same checkpoint_position.
C1_OneExecutionPerPosition ==
    \A e1, e2 \in DOMAIN db.execs :
        (/\ db.execs[e1].run_id = db.execs[e2].run_id
         /\ db.execs[e1].checkpoint_position = db.execs[e2].checkpoint_position)
        => e1 = e2

\* a run that a rollback went back to holds executions at positions 0 and 1
C1_Witness ==
    \E r \in DOMAIN db.runs :
        /\ \E rb \in DOMAIN db.rollback_events :
              db.rollback_events[rb].target_run_id = r
        /\ {db.execs[e].checkpoint_position : e \in ExecutionsOfRun(db, r)} = {0, 1}

\* the edges of the execution state machine
StatusEdges ==
    {<<"waiting_approval_to_start", "in_progress">>,
     <<"in_progress", "waiting_approval_to_complete">>,
     <<"in_progress", "completed">>,
     <<"waiting_approval_to_complete", "completed">>,
     <<"waiting_approval_to_complete", "in_progress">>,
     <<"in_progress", "failed">>,
     <<"waiting_approval_to_complete", "failed">>}

Refused(r) == r.res # "ok" /\ Committed(r) = State

\* the execution is unknown or not in the status the operation requires
NotInStatus(execution_id, status) ==
    execution_id \notin DOMAIN db.execs \/ db.execs[execution_id].status # status

\* C3: approve_start, submit_form_data, approve_complete and request_revision on
\* an unknown execution id, or on an execution that is not in the status the
\* operation requires, report an error and change nothing: the execution, its
\* run, its artifacts and its HumanInteraction log stay as they were.
C3_WrongStatusIsRefused ==
    \A execution_id \in ExecutionIdInputs :
        /\ NotInStatus(execution_id, "waiting_approval_to_start")
           => Refused(approve_start(State, execution_id))
        /\ NotInStatus(execution_id, "in_progress")
           => Refused(submit_form_data(State, execution_id))
        /\ NotInStatus(execution_id, "waiting_approval_to_complete")
           => /\ \A promote_artifacts \in BOOLEAN :
                    Refused(approve_complete(State, execution_id, promote_artifacts))
              /\ Refused(request_revision(State, execution_id))

\* the tables hold a completed execution with an artifact and a log, an execution
\* in progress and no execution 0: each of the four operations has a request to refuse
C3_Witness ==
    /\ 0 \notin DOMAIN db.execs
    /\ request_revision(State, 0).res = "not_found"
    /\ \E e, n \in DOMAIN db.execs :
          /\ db.execs[e].status = "completed"
          /\ ArtifactsOf(db, e) # {}
          /\ db.interactions[e] # <<>>
          /\ approve_start(State, e).res = "invalid_state"
          /\ submit_form_data(State, e).res = "invalid_state"
          /\ approve_complete(State, e, TRUE).res = "invalid_state"
          /\ db.execs[n].status = "in_progress"
          /\ request_revision(State, n).res = "invalid_state"

\* the execution waits for approval to complete and has used up its revisions
AtRevisionLimit(d, e) ==
    /\ d.execs[e].status = "waiting_approval_to_complete"
    /\ d.execs[e].revision_iteration >= d.execs[e].max_revision_iterations

\* none of the four state-machine operations succeeds on the execution
NoOperationSucceeds(st, e) ==
    /\ approve_start(st, e).res # "ok"
    /\ submit_form_data(st, e).res # "ok"
    /\ \A promote_artifacts \in BOOLEAN : approve_complete(st, e, promote_artifacts).res # "ok"
    /\ request_revision(st, e).res # "ok"

\* C4: request_revision on an execution that waits for approval to complete with
\* revision_iteration >= max_revision_iterations reports max-revisions-exceeded
\* and leaves the execution failed, failed_at stamped, revision_iteration as it
\* was; afterwards none of the four operations succeeds on that execution.
C4_RevisionLimitFailsExecution ==
    \A e \in DOMAIN db.execs :
        AtRevisionLimit(db, e) =>
            LET r == request_revision(State, e)
                after == Committed(r)
            IN /\ r.res = "max_revisions_exceeded"
               /\ after.db.execs[e].status = "failed"
               /\ after.db.execs[e].failed_at
               /\ after.db.execs[e].revision_iteration = db.execs[e].revision_iteration
               /\ NoOperationSucceeds(after, e)

\* C5: revision_iteration never exceeds max_revision_iterations; a revision
\* request below the limit adds one to revision_iteration and returns the
\* execution to in_progress; the revision request at the limit, the one after the
\* (m+1)-th submission, leaves the execution failed and not in_progress.
C5_RevisionLoop ==
    \A e \in DOMAIN db.execs :
        /\ db.execs[e].revision_iteration <= db.execs[e].max_revision_iterations
        /\ db.execs[e].status = "waiting_approval_to_complete" =>
              LET after == Committed(request_revision(State, e)).db.execs[e] IN
              IF db.execs[e].revision_iteration < db.execs[e].max_revision_iterations
              THEN /\ after.revision_iteration = db.execs[e].revision_iteration + 1
                   /\ after.status = "in_progress"
              ELSE after.status = "failed"

\* C6: submit_form_data on an execution in progress leaves it waiting for
\* approval to complete exactly if its checkpoint requires approval to complete;
\* otherwise the same request completes it with promotion: the committed status
\* is completed and the artifact it staged is promoted.
C6_SubmitWaitsIffApprovalRequired ==
    \A e \in DOMAIN db.execs :
        db.execs[e].status = "in_progress" =>
            LET r == submit_form_data(State, e)
                after == Committed(r)
                requires_approval ==
                    checkpoint_defs[db.execs[e].checkpoint_id].requires_approval_to_complete
            IN /\ r.res = "ok"
               /\ after.db.execs[e].status = "waiting_approval_to_complete"
                  <=> requires_approval
               /\ ~requires_approval =>
                     /\ after.db.execs[e].status = "completed"
                     /\ after.db.execs[e].completed_at
                     /\ ArtifactsOf(after.db, e) # {}
                     /\ \A a \in ArtifactsOf(after.db, e) :
                           /\ after.db.artifacts[a].promoted_to_permanent_at
                           /\ after.db.artifacts[a].file_path.root = "runs"
                           /\ after.db.artifacts[a].file_path \in after.fs.files

\* one run holds an execution that its submission completed and promoted, at a
\* checkpoint without completion approval, and an execution that its submission
\* left waiting, at a checkpoint with it
C6_Witness ==
    \E e, n \in DOMAIN db.execs :
        /\ db.execs[e].run_id = db.execs[n].run_id
        /\ ~checkpoint_defs[db.execs[e].checkpoint_id].requires_approval_to_complete
        /\ db.execs[e].status = "completed"
        /\ \A a \in ArtifactsOf(db, e) : db.artifacts[a].promoted_to_permanent_at
        /\ checkpoint_defs[db.execs[n].checkpoint_id].requires_approval_to_complete
        /\ db.execs[n].status = "waiting_approval_to_complete"
        /\ db.interactions[n][Len(db.interactions[n])].interaction_type = "script_input"

\* the results of the requests that complete execution e in the current state
CompletionsOf(e) ==
    IF db.execs[e].status = "waiting_approval_to_complete"
    THEN {approve_complete(State, e, promote_artifacts) : promote_artifacts \in BOOLEAN}
    ELSE IF /\ db.execs[e].status = "in_progress"
            /\ ~checkpoint_defs[db.execs[e].checkpoint_id].requires_approval_to_complete
    THEN {submit_form_data(State, e)}
    ELSE {}

\* C7: when an execution at position p completes and checkpoint_order has an
\* entry at p+1, exactly one execution is created, at position p+1 for that
\* entry, the run points at it, and it is in_progress if auto_advance is on and
\* the next checkpoint needs no approval to start, waiting_approval_to_start in
\* every other case.
C7_CompletionCreatesNextExecution ==
    \A e \in DOMAIN db.execs : \A r \in CompletionsOf(e) :
        LET p == db.execs[e].checkpoint_position
            run_id == db.execs[e].run_id
            after == Committed(r).db
            created == DOMAIN after.execs \ DOMAIN db.execs
        IN p + 1 < Len(pipeline.checkpoint_order) =>
            LET next_checkpoint_id == pipeline.checkpoint_order[p + 2] IN
            /\ r.res = "ok"
            /\ after.execs[e].status = "completed"
            /\ Cardinality(created) = 1
            /\ \A n \in created :
                  /\ after.execs[n].run_id = run_id
                  /\ after.execs[n].checkpoint_position = p + 1
                  /\ after.execs[n].checkpoint_id = next_checkpoint_id
                  /\ after.execs[n].status =
                        IF /\ pipeline.auto_advance
                           /\ ~checkpoint_defs[next_checkpoint_id].requires_approval_to_start
                        THEN "in_progress"
                        ELSE "waiting_approval_to_start"
            /\ after.runs[run_id].current_checkpoint_position = p + 1
            /\ after.runs[run_id].current_checkpoint_id = next_checkpoint_id
            /\ after.runs[run_id].status = db.runs[run_id].status

\* without auto_advance, the execution created at position 1 waits for approval
\* to start although its checkpoint asks for none
C7_Witness ==
    \E e, n \in DOMAIN db.execs :
        /\ ~pipeline.auto_advance
        /\ db.execs[e].run_id = db.execs[n].run_id
        /\ db.execs[e].checkpoint_position = 0
        /\ db.execs[e].status = "completed"
        /\ db.execs[n].checkpoint_position = 1
        /\ ~checkpoint_defs[db.execs[n].checkpoint_id].requires_approval_to_start
        /\ db.execs[n].status = "waiting_approval_to_start"
        /\ db.runs[db.execs[n].run_id].current_checkpoint_position = 1

\* what a completion at the last position of checkpoint_order leaves, and what
\* every completed run looks like
RunCompletion ==
    /\ \A e \in DOMAIN db.execs : \A r \in CompletionsOf(e) :
          LET run_id == db.execs[e].run_id
              after == Committed(r)
          IN db.execs[e].checkpoint_position + 1 >= Len(pipeline.checkpoint_order) =>
                /\ r.res = "ok"
                /\ after.db.execs[e].status = "completed"
                /\ after.db.runs[run_id].status = "completed"
                /\ after.db.runs[run_id].completed_at
                /\ after.db.runs[run_id].current_checkpoint_id = None
                /\ after.db.runs[run_id].current_checkpoint_position = None
                /\ DOMAIN after.db.execs = DOMAIN db.execs
                /\ e \notin after.fs.temp_dirs
                /\ \A f \in after.fs.files : ~(f.root = "temp" /\ f.owner = e)
    /\ \A run_id \in DOMAIN db.runs :
          db.runs[run_id].status = "completed" =>
              \A e \in ExecutionsOfRun(db, run_id) : db.execs[e].status = "completed"

\* in this step an execution of the run completes at a position after which
\* checkpoint_order has no entry
CompletesAtLastPosition(run_id) ==
    \E e \in ExecutionsOfRun(db, run_id) \cap DOMAIN db'.execs :
        /\ db.execs[e].status # "completed"
        /\ db'.execs[e].status = "completed"
        /\ db.execs[e].checkpoint_position + 1 >= Len(pipeline.checkpoint_order)

\* C8: a run becomes completed in exactly the steps in which one of its
\* executions completes at a position p with no entry at p+1 in checkpoint_order;
\* that completion stamps completed_at, clears the run's current-checkpoint
\* pointer, creates no execution and deletes the completing execution's temp
\* workspace; every completed run has only completed executions.
C8_RunCompletesAtLastCheckpoint ==
    /\ []RunCompletion
    /\ [][\A run_id \in DOMAIN db.runs \cap DOMAIN db'.runs :
             (db.runs[run_id].status # "completed" /\ db'.runs[run_id].status = "completed")
             <=> CompletesAtLastPosition(run_id)]_vars

\* a completed run of a two-checkpoint pipeline: pointer cleared, both executions
\* completed, no temp workspace left for the last one
C8_Witness ==
    \E run_id \in DOMAIN db.runs :
        /\ db.runs[run_id].status = "completed"
        /\ db.runs[run_id].completed_at
        /\ db.runs[run_id].current_checkpoint_position = None
        /\ {db.execs[e].checkpoint_position : e \in ExecutionsOfRun(db, run_id)} = {0, 1}
        /\ \A e \in ExecutionsOfRun(db, run_id) :
              db.execs[e].status = "completed" /\ e \notin fs.temp_dirs

C10_StartRunOnlyOnce ==
    \A run_id \in DOMAIN db.runs :
        db.runs[run_id].status # "not_started" =>
            LET r == start_run(State, run_id) IN
            /\ r.res = "already_started"
            /\ Committed(r) = State

\* start_run has a request to refuse on a run that a rollback reopened: it was
\* completed and is in_progress again, with all its executions completed
C10_Witness ==
    \E run_id \in DOMAIN db.runs :
        /\ db.runs[run_id].status = "in_progress"
        /\ ~db.runs[run_id].completed_at
        /\ \E rb \in DOMAIN db.rollback_events :
              /\ db.rollback_events[rb].target_run_id = run_id
              /\ db.rollback_events[rb].rollback_type = "checkpoint_level"
        /\ \A e \in ExecutionsOfRun(db, run_id) : db.execs[e].status = "completed"
        /\ start_run(State, run_id).res = "already_started"

\* the archived items of a kind that a rollback event holds for a row
ItemsFor(d, rollback_id, item_type, item_id) ==
    {i \in d.archived_items : /\ i.rollback_id = rollback_id
                              /\ i.item_type = item_type
                              /\ i.item_id = item_id}

\* C11: checkpoint_level_rollback(run, p), p an index of checkpoint_order, on a
\* run with an execution beyond p succeeds; afterwards the run has no execution
\* beyond p, its executions up to p are as they were, one new RollbackEvent of
\* type checkpoint_level holds an ArchivedItem for each removed execution and
\* each of its artifact records, the run is in_progress if it was completed and
\* keeps its status otherwise, and its current_checkpoint_position is p.
C11_CheckpointLevelRollback ==
    \A run_id \in DOMAIN db.runs, p \in Positions :
        LET victims == ExecutionsBeyond(db, run_id, p)
            kept == ExecutionsOfRun(db, run_id) \ victims
            r == checkpoint_level_rollback(State, run_id, p, {})
            after == Committed(r).db
            events == DOMAIN after.rollback_events \ DOMAIN db.rollback_events
        IN victims # {} =>
            /\ r.res = "ok"
            /\ ExecutionsOfRun(after, run_id) = kept
            /\ \A e \in kept :
                  /\ after.execs[e] = db.execs[e]
                  /\ after.interactions[e] = db.interactions[e]
                  /\ \A a \in ArtifactsOf(db, e) :
                        a \in DOMAIN after.artifacts /\ after.artifacts[a] = db.artifacts[a]
            /\ Cardinality(events) = 1
            /\ \A rb \in events :
                  /\ after.rollback_events[rb].rollback_type = "checkpoint_level"
                  /\ \A e \in victims :
                        /\ ItemsFor(after, rb, "checkpoint_execution", e) # {}
                        /\ \A a \in ArtifactsOf(db, e) :
                              /\ ItemsFor(after, rb, "artifact", a) # {}
                              /\ a \notin DOMAIN after.artifacts
            /\ after.runs[run_id].status =
                  IF db.runs[run_id].status = "completed" THEN "in_progress"
                  ELSE db.runs[run_id].status
            /\ after.runs[run_id].current_checkpoint_position = p

\* a checkpoint-level rollback to position 0 has committed: its event holds an
\* item for the execution it removed and one for that execution's artifact, and
\* its run is in progress at position 0 with the execution at 0 left
C11_Witness ==
    \E rb \in DOMAIN db.rollback_events :
        LET event == db.rollback_events[rb]
            run_id == event.target_run_id
        IN /\ event.rollback_type = "checkpoint_level"
           /\ event.target_checkpoint_position = 0
           /\ \E i, j \in db.archived_items :
                 /\ i.rollback_id = rb /\ i.item_type = "checkpoint_execution"
                 /\ j.rollback_id = rb /\ j.item_type = "artifact"
                 /\ i.item_id \notin DOMAIN db.execs
           /\ run_id \in DOMAIN db.runs
           /\ db.runs[run_id].status = "in_progress"
           /\ db.runs[run_id].current_checkpoint_position = 0
           /\ {db.execs[e].checkpoint_position : e \in ExecutionsOfRun(db, run_id)} = {0}

\* C12: run_level_rollback(current_run, target_run, p), p an index of
\* checkpoint_order, when a run has a version above the target's succeeds;
\* afterwards exactly the runs with a version above the target's are gone (the
\* current run among them if its version is above), with all their executions
\* and artifact records, the target run is in_progress if it was completed and
\* keeps its status otherwise, and its current_checkpoint_position is p.
C12_RunLevelRollback ==
    \A current_run_id \in DOMAIN db.runs, target_run_id \in DOMAIN db.runs,
       p \in Positions, scan_descending \in BOOLEAN :
        LET victims == {v \in DOMAIN db.runs :
                           db.runs[v].run_version > db.runs[target_run_id].run_version}
            r == run_level_rollback(State, current_run_id, target_run_id, p,
                                    scan_descending, {})
            after == Committed(r).db
        IN victims # {} =>
            /\ r.res = "ok"
            /\ DOMAIN after.runs = DOMAIN db.runs \ victims
            /\ \A v \in DOMAIN after.runs :
                  after.runs[v].run_version <= db.runs[target_run_id].run_version
            /\ \A e \in DOMAIN db.execs :
                  e \in DOMAIN after.execs <=> db.execs[e].run_id \notin victims
            /\ \A a \in DOMAIN db.artifacts :
                  a \in DOMAIN after.artifacts
                  <=> db.execs[db.artifacts[a].execution_id].run_id \notin victims
            /\ after.runs[target_run_id].status =
                  IF db.runs[target_run_id].status = "completed" THEN "in_progress"
                  ELSE db.runs[target_run_id].status
            /\ after.runs[target_run_id].current_checkpoint_position = p

\* a run-level rollback has committed that removed its own current run: only the
\* target run is left, in progress at the target position, and the event's
\* items name a run and an execution that are gone
C12_Witness ==
    \E rb \in DOMAIN db.rollback_events :
        LET event == db.rollback_events[rb] IN
        /\ event.rollback_type = "run_level"
        /\ event.source_run_id \notin DOMAIN db.runs
        /\ DOMAIN db.runs = {event.target_run_id}
        /\ db.runs[event.target_run_id].status = "in_progress"
        /\ db.runs[event.target_run_id].current_checkpoint_position =
              event.target_checkpoint_position
        /\ \E i, j \in db.archived_items :
              /\ i.rollback_id = rb /\ i.item_type = "run"
              /\ i.item_id \notin DOMAIN db.runs
              /\ j.rollback_id = rb /\ j.item_type = "checkpoint_execution"
              /\ j.item_id \notin DOMAIN db.execs

\* in db and fs, the row has an ArchivedItem of its kind and a file or directory
\* exists at the item's archived_path
Archived(d, f, item_type, item_id) ==
    \E i \in d.archived_items :
        /\ i.item_type = item_type
        /\ i.item_id = item_id
        /\ i.archived_path \in f.files

\* C13: archive before delete: whenever a commit removes an artifact record, an
\* execution or a run, the state it leaves holds an ArchivedItem for that row and
\* an archive copy at the item's archived_path; so no reachable state lacks a row
\* without holding its ArchivedItem and its copy.
C13_ArchiveBeforeDelete ==
    [][/\ \A a \in DOMAIN db.artifacts \ DOMAIN db'.artifacts :
             Archived(db', fs', "artifact", a)
       /\ \A e \in DOMAIN db.execs \ DOMAIN db'.execs :
             Archived(db', fs', "checkpoint_execution", e)
       /\ \A r \in DOMAIN db.runs \ DOMAIN db'.runs :
             Archived(db', fs', "run", r)]_vars

\* the state a request leaves holds every row, temp workspace and file of the
\* current state, unchanged, and no RollbackEvent or ArchivedItem more
NothingDeleted(after) ==
    /\ after.db = db
    /\ fs.temp_dirs \subseteq after.fs.temp_dirs
    /\ fs.files \subseteq after.fs.files

\* C14: a checkpoint-level or run-level rollback in which a copy raises aborts
\* with nothing deleted: every execution, artifact and run row, every temp
\* workspace and every file is still there, the run's status and pointer are
\* unchanged and no RollbackEvent is recorded.
C14_ArchiveFailureDeletesNothing ==
    \A copy \in CopyInputs, p \in Positions :
        /\ \A run_id \in DOMAIN db.runs :
              LET r == checkpoint_level_rollback(State, run_id, p, {copy}) IN
              r.res = "archive_failure" => NothingDeleted(Committed(r))
        /\ \A current_run_id \in DOMAIN db.runs, target_run_id \in DOMAIN db.runs,
              scan_descending \in BOOLEAN :
              LET r == run_level_rollback(State, current_run_id, target_run_id, p,
                                          scan_descending, {copy}) IN
              r.res = "archive_failure" => NothingDeleted(Committed(r))

\* C15: for every ArchivedItem whose RollbackEvent exists, a file or directory
\* exists at its archived_path, whatever its item_type and also when the
\* original file of an artifact was missing at the rollback.
C15_ArchivedPathExists ==
    \A i \in db.archived_items :
        i.rollback_id \in DOMAIN db.rollback_events => i.archived_path \in fs.files

\* C16: a run or an execution ceases to exist only in a step that leaves an
\* ArchivedItem naming it, which only the two rollbacks do; no other operation,
\* delete_checkpoint and delete_pipeline included, removes a run or an execution
\* without one.
C16_RowsGoOnlyWithArchivedItem ==
    [][/\ \A e \in DOMAIN db.execs \ DOMAIN db'.execs :
             \E rb \in DOMAIN db'.rollback_events \ DOMAIN db.rollback_events :
                 ItemsFor(db', rb, "checkpoint_execution", e) # {}
       /\ \A r \in DOMAIN db.runs \ DOMAIN db'.runs :
             \E rb \in DOMAIN db'.rollback_events \ DOMAIN db.rollback_events :
                 ItemsFor(db', rb, "run", r) # {}]_vars

\* C17: the rollback ledger only grows: every committed RollbackEvent is still
\* there after every later step, with the same fields, and so is each of its
\* ArchivedItems, also when a later run-level rollback deletes the event's
\* source run.
C17_LedgerIsAppendOnly ==
    [][/\ \A rb \in DOMAIN db.rollback_events :
             /\ rb \in DOMAIN db'.rollback_events
             /\ db'.rollback_events[rb] = db.rollback_events[rb]
       /\ db.archived_items \subseteq db'.archived_items]_vars

\* C18: checkpoint_level_rollback and run_level_rollback with a target position
\* that is no index of checkpoint_order (negative, or at least its length) report
\* an error and change nothing: no row, no file, no archive directory.
C18_UnknownPositionIsRefused ==
    \A p \in PositionInputs \ Positions :
        /\ \A run_id \in DOMAIN db.runs :
              LET r == checkpoint_level_rollback(State, run_id, p, {}) IN
              r.res = "no_checkpoint_at_position" /\ Refused(r)
        /\ \A current_run_id \in DOMAIN db.runs, target_run_id \in DOMAIN db.runs,
              scan_descending \in BOOLEAN :
              LET r == run_level_rollback(State, current_run_id, target_run_id, p,
                                          scan_descending, {}) IN
              r.res = "no_checkpoint_at_position" /\ Refused(r)

\* two runs, the newer one with executions at positions 0 and 1: both rollbacks
\* have victims for the target positions -1 and 2 and refuse them
C18_Witness ==
    \E r1, r2 \in DOMAIN db.runs :
        /\ db.runs[r1].run_version < db.runs[r2].run_version
        /\ Len(pipeline.checkpoint_order) = 2
        /\ {db.execs[e].checkpoint_position : e \in ExecutionsOfRun(db, r2)} = {0, 1}
        /\ checkpoint_level_rollback(State, r2, -1, {}).res = "no_checkpoint_at_position"
        /\ run_level_rollback(State, r2, r1, 2, TRUE, {}).res = "no_checkpoint_at_position"

\* C19: checkpoint_level_rollback to an index of checkpoint_order beyond which
\* the run has no execution (the run's current position in particular) reports
\* a no-op, not an error, and changes nothing: no row, no file, no archive
\* directory; get_available_rollback_points gives the same list before and after.
C19_NoVictimsIsNoOp ==
    \A run_id \in DOMAIN db.runs, p \in Positions :
        ExecutionsBeyond(db, run_id, p) = {} =>
            LET r == checkpoint_level_rollback(State, run_id, p, {}) IN
            /\ r.res = "no_op"
            /\ Committed(r) = State
            /\ get_available_rollback_points(Committed(r), run_id) =
                  get_available_rollback_points(State, run_id)

\* a run in progress at position 1 with a rollback point at position 0: the
\* rollback to its current position is a no-op
C19_Witness ==
    \E run_id \in DOMAIN db.runs :
        /\ db.runs[run_id].status = "in_progress"
        /\ db.runs[run_id].current_checkpoint_position = 1
        /\ Len(get_available_rollback_points(State, run_id)) = 1
        /\ ~get_available_rollback_points(State, run_id)[1].is_current
        /\ checkpoint_level_rollback(State, run_id, 1, {}).res = "no_op"
        /\ checkpoint_level_rollback(State, run_id, 0, {}).res = "ok"

\* the artifact records of the execution whose file exists, the ones a rollback copies
CopiedArtifacts(st, e) ==
    {a \in ArtifactsOf(st.db, e) : st.db.artifacts[a].file_path \in st.fs.files}

\* C20: checkpoint_level_rollback takes its victims in strictly descending
\* checkpoint_position: at the moment the copy of a victim's artifact raises,
\* exactly the victims at a higher position have been archived and deleted in
\* the session, and their archive copies are the ones left on disk.
C20_VictimsInDescendingOrder ==
    \A run_id \in DOMAIN db.runs, p \in Positions :
        \A v \in ExecutionsBeyond(db, run_id, p) : \A a \in CopiedArtifacts(State, v) :
            LET r == checkpoint_level_rollback(State, run_id, p, {<<"artifact", a>>})
                rb == nx.rollback
                version == db.runs[run_id].run_version
            IN /\ r.res = "archive_failure"
               /\ \A w \in ExecutionsBeyond(db, run_id, p) :
                     LET before == db.execs[w].checkpoint_position >
                                   db.execs[v].checkpoint_position
                     IN /\ w \notin DOMAIN r.st.db.execs <=> before
                        /\ ItemsFor(r.st.db, rb, "checkpoint_execution", w) # {} <=> before
                        /\ \A b \in CopiedArtifacts(State, w) :
                              ArchivedArtifactPath(rb, db.artifacts[b], version)
                                  \in Committed(r).fs.files <=> before

\* what a rollback to position 0 left when the copy for its second victim
\* raised: an archive directory without a RollbackEvent that holds the copy of
\* the artifact at position 2 and none of the artifact at position 1, whose file
\* exists; both executions are still there
C20_Witness ==
    \E rb \in fs.archive_dirs \ DOMAIN db.rollback_events :
        \E e1, e2 \in DOMAIN db.execs :
            /\ db.execs[e1].run_id = db.execs[e2].run_id
            /\ db.execs[e1].checkpoint_position = 1
            /\ db.execs[e2].checkpoint_position = 2
            /\ \E a \in CopiedArtifacts(State, e1) :
                  ArchivedArtifactPath(rb, db.artifacts[a],
                                       db.runs[db.execs[e1].run_id].run_version)
                      \notin fs.files
            /\ \E b \in ArtifactsOf(db, e2) :
                  ArchivedArtifactPath(rb, db.artifacts[b],
                                       db.runs[db.execs[e2].run_id].run_version)
                      \in fs.files

\* the results of the requests that complete execution e in the current state
\* with promotion: approve_complete asked to promote, or the submission that
\* completes without approval
PromotingCompletionsOf(e) ==
    IF db.execs[e].status = "waiting_approval_to_complete"
    THEN {approve_complete(State, e, TRUE)}
    ELSE IF /\ db.execs[e].status = "in_progress"
            /\ ~checkpoint_defs[db.execs[e].checkpoint_id].requires_approval_to_complete
    THEN {submit_form_data(State, e)}
    ELSE {}

\* the artifact records of the execution whose file is not where file_path says
MissingArtifacts(st, e) ==
    {a \in ArtifactsOf(st.db, e) : st.db.artifacts[a].file_path \notin st.fs.files}

\* what a completion with promotion leaves of the execution's artifact records:
\* each is promoted, with its file_path in permanent storage, or its staged file
\* was missing and the record is as it was
PromotedOrMissing ==
    \A e \in DOMAIN db.execs : \A r \in PromotingCompletionsOf(e) :
        LET after == Committed(r).db IN
        /\ r.res = "ok"
        /\ after.execs[e].status = "completed"
        /\ \A a \in ArtifactsOf(after, e) :
              \/ /\ after.artifacts[a].promoted_to_permanent_at
                 /\ after.artifacts[a].file_path.root = "runs"
              \/ /\ a \in MissingArtifacts(State, e)
                 /\ after.artifacts[a] = db.artifacts[a]

\* C21: every execution completed with promotion requested has each of its
\* Artifact records promoted (promoted_to_permanent_at set, file_path in
\* permanent storage) or left as it was because its staged file was missing when
\* the completion ran; and this stays so in every later state: a completed
\* execution gets no further artifact record and a promoted record never changes.
C21_CompletedArtifactsArePromoted ==
    /\ []PromotedOrMissing
    /\ [][/\ \A a \in DOMAIN db'.artifacts \ DOMAIN db.artifacts :
               LET e == db'.artifacts[a].execution_id IN
               e \in DOMAIN db.execs => db.execs[e].status # "completed"
          /\ \A a \in DOMAIN db.artifacts \cap DOMAIN db'.artifacts :
               LET e == db.artifacts[a].execution_id IN
               db.execs[e].status = "completed" => db'.artifacts[a] = db.artifacts[a]]_vars

\* a completed execution whose artifact is promoted into permanent storage,
\* beside an execution waiting for approval to complete whose staged file is gone
C21_Witness ==
    \E e, n \in DOMAIN db.execs :
        /\ db.execs[e].status = "completed"
        /\ \E a \in ArtifactsOf(db, e) :
              /\ db.artifacts[a].promoted_to_permanent_at
              /\ db.artifacts[a].file_path.root = "runs"
        /\ db.execs[n].status = "waiting_approval_to_complete"
        /\ MissingArtifacts(State, n) # {}

\* runs/v{n}/checkpoint_{pos}_{name}/outputs/{artifact_name}_{artifact_id}_v{n}:
\* where the record of a staged artifact says its file belongs once promoted
PermanentPathOf(d, a) ==
    LET artifact == d.artifacts[a]
        execution == d.execs[artifact.execution_id]
        run_version == d.runs[execution.run_id].run_version
    IN [root |-> "runs", owner |-> 0, v |-> run_version,
        pos |-> execution.checkpoint_position, cp |-> execution.checkpoint_id,
        stem |-> artifact.artifact_name \o <<artifact.artifact_id, run_version>>]

\* st holds artifact a of the current state promoted by a move
Moved(st, a) ==
    /\ db.artifacts[a].file_path \notin st.fs.files
    /\ PermanentPathOf(db, a) \in st.fs.files
    /\ st.db.artifacts[a].file_path = PermanentPathOf(db, a)
    /\ st.db.artifacts[a].artifact_id = db.artifacts[a].artifact_id
    /\ st.db.artifacts[a].promoted_to_permanent_at

\* C22: promotion is a move: for an artifact whose staged file exists, the
\* promotion step, and the completion with promotion as a whole, leave no file
\* at the staging path and a file at the permanent path (run version, checkpoint
\* position and checkpoint name in the directory, run version in the file name);
\* the record's file_path is that path and its artifact_id is unchanged.
C22_PromotionIsAMove ==
    \A a \in DOMAIN db.artifacts :
        LET e == db.artifacts[a].execution_id IN
        (/\ db.artifacts[a].file_path.root = "temp"
         /\ db.artifacts[a].file_path \in fs.files)
        => /\ Moved(PromoteArtifact(State, a), a)
           /\ \A f \in fs.files \ {db.artifacts[a].file_path} :
                 f \in PromoteArtifact(State, a).fs.files
           /\ \A r \in PromotingCompletionsOf(e) : Moved(Committed(r), a)

\* a promoted artifact of an execution at position 1 of run version 2: its file
\* is at the permanent path named after that version, position and checkpoint,
\* no staged file of the execution is left, its artifact_id is in the file name
C22_Witness ==
    \E a \in DOMAIN db.artifacts :
        LET artifact == db.artifacts[a]
            e == artifact.execution_id
        IN /\ artifact.promoted_to_permanent_at
           /\ db.execs[e].checkpoint_position = 1
           /\ db.runs[db.execs[e].run_id].run_version = 2
           /\ artifact.file_path = [root |-> "runs", owner |-> 0, v |-> 2, pos |-> 1,
                                    cp |-> db.execs[e].checkpoint_id,
                                    stem |-> <<"form_data", artifact.artifact_id, 2>>]
           /\ artifact.file_path \in fs.files
           /\ \A f \in fs.files : ~(f.root = "temp" /\ f.owner = e)

\* C23: approve_complete with promotion on an execution with an artifact whose
\* staged file is missing succeeds all the same: the execution is completed, the
\* execution for the next checkpoint is created, or the run completed when there
\* is none, every artifact whose file is there is promoted, and the record of a
\* missing one keeps promoted_to_permanent_at unset and its file_path.
C23_MissingStagedFileIsSkipped ==
    \A e \in DOMAIN db.execs :
        (/\ db.execs[e].status = "waiting_approval_to_complete"
         /\ MissingArtifacts(State, e) # {})
        => LET r == approve_complete(State, e, TRUE)
               after == Committed(r).db
               p == db.execs[e].checkpoint_position
               run_id == db.execs[e].run_id
               created == DOMAIN after.execs \ DOMAIN db.execs
           IN /\ r.res = "ok"
              /\ after.execs[e].status = "completed"
              /\ IF p + 1 < Len(pipeline.checkpoint_order)
                 THEN /\ Cardinality(created) = 1
                      /\ \A n \in created :
                            /\ after.execs[n].run_id = run_id
                            /\ after.execs[n].checkpoint_position = p + 1
                      /\ after.runs[run_id].current_checkpoint_position = p + 1
                 ELSE /\ created = {}
                      /\ after.runs[run_id].status = "completed"
              /\ \A a \in ArtifactsOf(db, e) :
                    IF a \in MissingArtifacts(State, e)
                    THEN /\ ~after.artifacts[a].promoted_to_permanent_at
                         /\ after.artifacts[a].file_path = db.artifacts[a].file_path
                    ELSE after.artifacts[a].promoted_to_permanent_at

\* a rollback whose copy raised left an archive directory without a
\* RollbackEvent, holding the copy of an artifact, and took the staged file
\* with the temp workspace; the artifact's execution, at position 0, was completed
\* all the same, its record is unpromoted, and the execution at position 1 exists
C23_Witness ==
    \E rb \in fs.archive_dirs \ DOMAIN db.rollback_events :
        \E e, n \in DOMAIN db.execs : \E a \in ArtifactsOf(db, e) :
            /\ db.execs[e].status = "completed"
            /\ db.execs[e].checkpoint_position = 0
            /\ ~db.artifacts[a].promoted_to_permanent_at
            /\ db.artifacts[a].file_path.root = "temp"
            /\ db.artifacts[a].file_path \notin fs.files
            /\ ArchivedArtifactPath(rb, db.artifacts[a],
                                    db.runs[db.execs[e].run_id].run_version) \in fs.files
            /\ db.execs[n].run_id = db.execs[e].run_id
            /\ db.execs[n].checkpoint_position = 1

\* the staged files of the execution
StagedFiles(f, e) == {x \in f.files : x.root = "temp" /\ x.owner = e}

\* the execution has had a submission: it waits for approval to complete, or is
\* back in progress for a revision
Submitted(d, e) ==
    \/ d.execs[e].status = "waiting_approval_to_complete"
    \/ d.execs[e].status = "in_progress" /\ d.execs[e].revision_iteration > 0

\* C24: at a checkpoint that saves form data as an artifact, an execution that
\* has gone through any number of submit_form_data / request_revision cycles has
\* exactly one Artifact record of the configured name and exactly one staged
\* file, the one the record names; every submission on it leaves it so, and no
\* step changes the artifact_id the record got at the first submission.
C24_OneFormArtifactPerExecution ==
    /\ [](\A e \in DOMAIN db.execs :
            LET records == {a \in ArtifactsOf(db, e) :
                               db.artifacts[a].artifact_name = <<"form_data">>}
            IN (checkpoint_defs[db.execs[e].checkpoint_id].save_as_artifact
                /\ Submitted(db, e))
               => /\ Cardinality(records) = 1
                  /\ StagedFiles(fs, e) = {db.artifacts[a].file_path : a \in records}
                  /\ db.execs[e].status = "in_progress" =>
                        LET after == Committed(submit_form_data(State, e)) IN
                        /\ ArtifactsOf(after.db, e) = records
                        /\ \A a \in records :
                              after.db.artifacts[a].artifact_id = db.artifacts[a].artifact_id
                        /\ StagedFiles(after.fs, e) =
                              {after.db.artifacts[a].file_path : a \in records})
    /\ [][\A a \in DOMAIN db.artifacts \cap DOMAIN db'.artifacts :
             db'.artifacts[a].artifact_id = db.artifacts[a].artifact_id]_vars

\* an execution sent back for revision once and submitted again: one record,
\* whose artifact_id names the one staged file
C24_Witness ==
    \E e \in DOMAIN db.execs : \E a \in ArtifactsOf(db, e) :
        /\ db.execs[e].revision_iteration = 1
        /\ db.execs[e].status = "waiting_approval_to_complete"
        /\ Len(SelectSeq(db.interactions[e],
                         LAMBDA i : i.interaction_type = "script_input")) = 2
        /\ ArtifactsOf(db, e) = {a}
        /\ StagedFiles(fs, e) = {db.artifacts[a].file_path}
        /\ db.artifacts[a].file_path.stem = <<"form_data", db.artifacts[a].artifact_id>>

\* C25: create_run on the pipeline, when checkpoint_order is not empty and the
\* run to extend from, if given, is one of its runs, creates exactly one run,
\* with run_version 1 when the pipeline has no run and the highest run_version
\* among its runs plus 1 otherwise, status not_started and no current checkpoint;
\* on a pipeline with an empty checkpoint_order and on an unknown pipeline it
\* reports an error and creates nothing.
C25_CreateRunAssignsNextVersion ==
    \A pipeline_id \in PipelineIdInputs, extends_from_run_id \in {None} \cup RunIdInputs :
        LET r == create_run(State, pipeline_id, extends_from_run_id)
            after == Committed(r).db
            created == DOMAIN after.runs \ DOMAIN db.runs
            versions == {db.runs[x].run_version : x \in DOMAIN db.runs}
        IN /\ (pipeline_id = "unknown" \/ (pipeline_id = "pipeline"
                                            /\ Len(pipeline.checkpoint_order) = 0))
              => Refused(r)
           /\ (/\ pipeline_id = "pipeline"
               /\ Len(pipeline.checkpoint_order) > 0
               /\ extends_from_run_id \in {None} \cup DOMAIN db.runs)
              => /\ r.res = "ok"
                 /\ Cardinality(created) = 1
                 /\ \A x \in DOMAIN db.runs : after.runs[x] = db.runs[x]
                 /\ \A n \in created :
                       /\ after.runs[n].run_version =
                             IF versions = {} THEN 1
                             ELSE (CHOOSE v \in versions : \A w \in versions : w <= v) + 1
                       /\ after.runs[n].status = "not_started"
                       /\ after.runs[n].current_checkpoint_id = None
                       /\ after.runs[n].current_checkpoint_position = None
                       /\ DOMAIN after.execs = DOMAIN db.execs

\* create_run has given version 2 to a run created while the run of version 1
\* was in progress; the new run is not_started, without a current checkpoint and
\* without an execution
C25_Witness ==
    \E r1, r2 \in DOMAIN db.runs :
        /\ db.runs[r1].run_version = 1
        /\ db.runs[r1].status = "in_progress"
        /\ db.runs[r2].run_version = 2
        /\ db.runs[r2].status = "not_started"
        /\ db.runs[r2].current_checkpoint_id = None
        /\ db.runs[r2].current_checkpoint_position = None
        /\ ExecutionsOfRun(db, r2) = {}
        /\ create_run(State, "unknown", None).res = "pipeline_not_found"

\* C26: run versions are immutable and only grow: no step changes the
\* run_version of a run, and a run that a step creates gets a run_version above
\* that of every run created before it, the runs a run-level rollback has deleted
\* included (each run ever created has left its directory runs/v{n}), so that no
\* version number names two runs.
C26_RunVersionsNeverReused ==
    [][/\ \A r \in DOMAIN db.runs \cap DOMAIN db'.runs :
             db'.runs[r].run_version = db.runs[r].run_version
       /\ \A n \in DOMAIN db'.runs \ DOMAIN db.runs :
             \A v \in fs.run_dirs : db'.runs[n].run_version > v]_vars

\* C27: create_run on the pipeline without extends_from_run_id links the new
\* run, by previous_run_id and extends_from_run_version, to the run that has the
\* highest run_version at the call, and to none when the pipeline has no run;
\* with extends_from_run_id it links to exactly that run; when that id names no
\* run, or the run of another pipeline, it reports an error and creates no run.
C27_CreateRunLinksToLatest ==
    \A pipeline_id \in PipelineIdInputs, extends_from_run_id \in {None} \cup RunIdInputs :
        LET r == create_run(State, pipeline_id, extends_from_run_id)
            after == Committed(r).db
            created == DOMAIN after.runs \ DOMAIN db.runs
        IN /\ (pipeline_id = "pipeline" /\ Len(pipeline.checkpoint_order) > 0)
              => /\ extends_from_run_id = None
                    => /\ r.res = "ok"
                       /\ created # {}
                       /\ \A n \in created :
                             IF DOMAIN db.runs = {}
                             THEN /\ after.runs[n].previous_run_id = None
                                  /\ after.runs[n].extends_from_run_version = None
                             ELSE /\ after.runs[n].previous_run_id \in DOMAIN db.runs
                                  /\ \A q \in DOMAIN db.runs :
                                        db.runs[q].run_version <=
                                            db.runs[after.runs[n].previous_run_id].run_version
                                  /\ after.runs[n].extends_from_run_version =
                                        db.runs[after.runs[n].previous_run_id].run_version
                 /\ extends_from_run_id \in DOMAIN db.runs
                    => /\ r.res = "ok"
                       /\ created # {}
                       /\ \A n \in created :
                             /\ after.runs[n].previous_run_id = extends_from_run_id
                             /\ after.runs[n].extends_from_run_version =
                                   db.runs[extends_from_run_id].run_version
           /\ (extends_from_run_id # None /\ extends_from_run_id \notin DOMAIN db.runs)
              => Refused(r)
           /\ (pipeline_id = "other_pipeline" /\ extends_from_run_id \in DOMAIN db.runs)
              => Refused(r)

\* three runs: the second linked to the first, the third created with
\* extends_from_run_id naming the first while the second had the highest
\* version; a request naming no run and one of another pipeline are refused
C27_Witness ==
    \E a, b, c \in DOMAIN db.runs :
        /\ db.runs[a].run_version = 1 /\ db.runs[a].previous_run_id = None
        /\ db.runs[b].run_version = 2 /\ db.runs[b].previous_run_id = a
        /\ db.runs[b].extends_from_run_version = 1
        /\ db.runs[c].run_version = 3 /\ db.runs[c].previous_run_id = a
        /\ db.runs[c].extends_from_run_version = 1
        /\ create_run(State, "pipeline", 0).res = "not_found"
        /\ create_run(State, "other_pipeline", a).res = "run_of_another_pipeline"
        /\ create_run(State, "pipeline", None).st.db.runs[nx.run].previous_run_id = c

\* C28: whenever the pipeline has a run, its 'latest' pointer designates the run
\* with the highest run_version among the runs that exist: after create_run,
\* after start_run of the runs in any order, after a run-level rollback.
C28_LatestTracksHighestVersion ==
    DOMAIN db.runs # {} =>
        fs.latest = Max({db.runs[r].run_version : r \in DOMAIN db.runs})

\* the request in flight completes its execution: approve_complete, or
\* submit_form_data at a checkpoint that completes without approval
CompletionInFlight ==
    \/ in_flight.op = "approve_complete"
    \/ /\ in_flight.op = "submit_form_data"
       /\ ~checkpoint_defs[in_flight.execution.checkpoint_id].requires_approval_to_complete

\* C29: of two completion requests on one execution that both pass the status
\* check before either writes (two approve_complete, or two submit_form_data at
\* a checkpoint that completes without approval), exactly one succeeds: the one
\* that finds the execution completed by the other when it goes on changes no
\* row; and no run ever has two executions at one position, so the completed
\* execution has at most one successor at position p+1.
C29_ConcurrentCompletionsSucceedOnce ==
    /\ [](\A e1, e2 \in DOMAIN db.execs :
            (/\ db.execs[e1].run_id = db.execs[e2].run_id
             /\ db.execs[e1].checkpoint_position = db.execs[e2].checkpoint_position)
            => e1 = e2)
    /\ [][(/\ CompletionInFlight
           /\ in_flight'.op = "none"
           /\ in_flight.execution_id \in DOMAIN db.execs
           /\ db.execs[in_flight.execution_id].status = "completed")
          => db' = db]_vars

\* the outcome of the serial order in which the rollback in flight runs, as a
\* whole, after everything committed so far
RollbackRunLast ==
    checkpoint_level_rollback(State, in_flight.run_id,
                              in_flight.target_checkpoint_position, {})

\* C30: a checkpoint_level_rollback(run, p) that runs concurrently with a
\* state-machine operation on the run leaves the runs and executions that a
\* serial order of the two leaves: when the rollback commits last, on a run
\* with one execution per position, the run and execution rows are those the
\* rollback leaves when it runs after the other operation; in particular
\* current_checkpoint_position is p and the run has no execution beyond p.
C30_ConcurrentRollbackIsSerializable ==
    [][(/\ in_flight.op = "checkpoint_level_rollback"
        /\ in_flight'.op = "none"
        /\ DOMAIN db'.rollback_events # DOMAIN db.rollback_events
        /\ \A e1, e2 \in DOMAIN db.execs :
              db.execs[e1].checkpoint_position = db.execs[e2].checkpoint_position
              => e1 = e2)
       => /\ db'.runs[in_flight.run_id].current_checkpoint_position =
                 in_flight.target_checkpoint_position
          /\ ExecutionsBeyond(db', in_flight.run_id,
                              in_flight.target_checkpoint_position) = {}
          /\ RollbackRunLast.res = "ok"
             => /\ db'.runs = RollbackRunLast.st.db.runs
                /\ db'.execs = RollbackRunLast.st.db.execs]_vars

\* C31: two create_run calls on the pipeline that both read the maximum
\* run_version before either inserts never leave two runs of the pipeline with
\* the same run_version.
C31_ConcurrentCreatesGetDistinctVersions ==
    \A r1, r2 \in DOMAIN db.runs :
        db.runs[r1].run_version = db.runs[r2].run_version => r1 = r2

\* C32: get_rollback_history(run_id) returns the RollbackEvents whose source
\* run is run_id, and without run_id all the RollbackEvents of the pipeline,
\* newest first and cut at limit; so the event of a rollback that has committed
\* on a run is in the history of that run.
C32_RollbackHistoryListsEvents ==
    \A run_id \in {None} \cup DOMAIN db.runs, limit \in 1..MaxRollbacks :
        LET expected == order_by_created_at_desc(
                            {rb \in DOMAIN db.rollback_events :
                                run_id # None =>
                                    db.rollback_events[rb].source_run_id = run_id})
            history == get_rollback_history(db, "pipeline", run_id, limit)
        IN /\ Len(history) = IF limit < Len(expected) THEN limit ELSE Len(expected)
           /\ \A i \in 1..Len(history) : history[i] = expected[i]

\* C33: what request_revision at the revision limit sets is stored when the
\* request has ended through get_db: the execution is failed, failed_at is set,
\* the revision_request interaction is recorded, and a repeated request_revision
\* does not find the execution waiting for approval to complete at the limit.
C33_FailedStatusIsDurable ==
    \A e \in DOMAIN db.execs :
        (/\ AtRevisionLimit(db, e)
         /\ request_revision(State, e).res = "max_revisions_exceeded")
        => LET stored == Committed(request_revision(State, e)).db IN
           /\ stored.execs[e].status = "failed"
           /\ stored.execs[e].failed_at
           /\ Len(stored.interactions[e]) = Len(db.interactions[e]) + 1
           /\ stored.interactions[e][Len(stored.interactions[e])].interaction_type =
                  "revision_request"
           /\ ~AtRevisionLimit(stored, e)

\* C34: a rollback that commits and leaves its target run in_progress leaves
\* it with an execution on which one of approve_start, submit_form_data,
\* approve_complete and request_revision succeeds, so that the run can go on to
\* completed without a further rollback.
C34_RollbackNeverStrandsRun ==
    [][\A rb \in DOMAIN db'.rollback_events \ DOMAIN db.rollback_events :
          LET run_id == db'.rollback_events[rb].target_run_id
              left == [db |-> db', fs |-> fs', nx |-> nx']
          IN (/\ run_id \in DOMAIN db'.runs
              /\ db'.runs[run_id].status = "in_progress")
             => \E e \in DOMAIN db'.execs :
                   /\ db'.execs[e].run_id = run_id
                   /\ ~NoOperationSucceeds(left, e)]_vars

\* C35: the executions of a run in progress are at exactly the positions
\* 0..current_checkpoint_position: no position is missing and no execution lies
\* beyond the position the run points at.
C35_ExecutionsFillPositionsUpToPointer ==
    \A r \in DOMAIN db.runs :
        db.runs[r].status = "in_progress"
        => {db.execs[e].checkpoint_position :
               e \in {x \in DOMAIN db.execs : db.execs[x].run_id = r}}
           = 0..db.runs[r].current_checkpoint_position

\* C36: the previous_run_id of every run is null or the id of a run that
\* exists and has a lower run_version, which is the run's
\* extends_from_run_version; so no run-level rollback deletes a run that a run
\* it keeps extends from.
C36_LineageNeverDangles ==
    \A r \in DOMAIN db.runs :
        db.runs[r].previous_run_id # None
        => /\ db.runs[r].previous_run_id \in DOMAIN db.runs
           /\ db.runs[db.runs[r].previous_run_id].run_version < db.runs[r].run_version
           /\ db.runs[r].extends_from_run_version =
                  db.runs[db.runs[r].previous_run_id].run_version

\* C37: when a checkpoint-level or run-level rollback has committed, the temp
\* workspace directory of every execution it deleted is gone from the disk.
C37_RollbackRemovesTempWorkspaces ==
    [][DOMAIN db'.rollback_events # DOMAIN db.rollback_events
       => \A e \in DOMAIN db.execs \ DOMAIN db'.execs : e \notin fs'.temp_dirs]_vars

\* the run is completed and has one execution at each position of the
\* pipeline, all of them completed, and no other
CompletedThroughout(d, r) ==
    LET executions == {e \in DOMAIN d.execs : d.execs[e].run_id = r} IN
    /\ r \in DOMAIN d.runs
    /\ d.runs[r].status = "completed"
    /\ Cardinality(executions) = Len(pipeline.checkpoint_order)
    /\ {d.execs[e].checkpoint_position : e \in executions} = Positions
    /\ \A e \in executions : d.execs[e].status = "completed"

\* C38: with no rollback and no edit of the definitions, a started run whose
\* enabled approve_start, submit_form_data and approve_complete are eventually
\* performed eventually is completed, with exactly one execution at each of the
\* positions 0..N-1, all completed.
C38_StartedRunCompletes ==
    (\E r \in DOMAIN db.runs : db.runs[r].status = "in_progress")
    ~> (\E r \in DOMAIN db.runs : CompletedThroughout(db, r))

\* the run of a pipeline of MaxCheckpoints checkpoints has been completed after
\* a revision
C38_Witness ==
    /\ Len(pipeline.checkpoint_order) = MaxCheckpoints
    /\ \E r \in DOMAIN db.runs :
          /\ CompletedThroughout(db, r)
          /\ \E e \in DOMAIN db.execs : db.execs[e].revision_iteration > 0

\* C39: every Artifact record whose promoted_to_permanent_at is set has a file
\* at its file_path, also after a request that moved files has failed and been
\* rolled back.
C39_PromotedArtifactHasItsFile ==
    \A a \in DOMAIN db.artifacts :
        db.artifacts[a].promoted_to_permanent_at => db.artifacts[a].file_path \in fs.files

\* the copies under .archived
ArchiveCopies(f) == {x \in f.files : x.root = "archived"}

\* C40: a rollback that fails after it created its archive directory or archive
\* copies removes them again: a request that commits no RollbackEvent leaves no
\* new archive directory and no new copy; so every rollback archive directory on
\* disk is that of a committed RollbackEvent.
C40_FailedRollbackCleansItsArchive ==
    /\ [][DOMAIN db'.rollback_events \subseteq DOMAIN db.rollback_events
          => /\ fs'.archive_dirs \subseteq fs.archive_dirs
             /\ ArchiveCopies(fs') \subseteq ArchiveCopies(fs)]_vars
    /\ [](fs.archive_dirs \subseteq DOMAIN db.rollback_events)

====
